---- MODULE Spec2Model ----
(***************************************************************************)
(* A model of the shopit API: the order workflow (creation with its        *)
(* compensating delete, the status transition with its stock decrement)    *)
(* and the review aggregate of a product.  The relational store is a       *)
(* record of tables, every repository method is an operator from a store   *)
(* to a store, a value and an error, every use case composes repository    *)
(* operators the way the Go code sequences the calls, and every HTTP       *)
(* handler is one action.                                                   *)
(***************************************************************************)
EXTENDS Integers, Sequences, FiniteSets, TLC

\* db: the database; last: the latest request and its response; clock: the
\* wall clock; inflight: the requests that are between two statements;
\* visitors: the rate limiter's table of limiters
VARIABLES db, last, clock, inflight, visitors

vars == <<db, last, clock, inflight, visitors>>

(***************************************************************************)
(* Bounds of the model.                                                    *)
(***************************************************************************)
MaxOrders == 1
MaxReviews == 2
InitStock == 1
MaxOversell == 1
\* the logins of a behaviour, each generating a token
MaxTokens == 2
\* the last instant of the clock
MaxClock == 2
\* the lifetime of a login token (24 hours), in ticks of the clock
TokenTTL == 1

(***************************************************************************)
(* Values.                                                                 *)
(***************************************************************************)
\* uuid.Nil, the zero UUID; generated ids are 1, 2, ...
NilUUID == 0
\* time.Time{}, the zero time
ZeroTime == 0
\* an error value is a tuple of strings; the nil error is the empty one
Nil == <<>>
\* a failure of the database call itself (timeout, lost connection)
ErrDB(call) == <<"db: call failed", call>>
\* a constraint of the schema rejected the statement
ErrConstraint(call) == <<"pq: constraint violation", call>>
\* sql.ErrNoRows, Row.Scan on an empty result
ErrNoRows == <<"sql: no rows in result set">>

ProductIds == {1, 2}
Quantities == {1, 2}
PaymentRefs == {"pi_1", "pi_2"}
\* what the status form field can carry
StatusInputs == {"", "Shipped", "Delivered"}
\* ratings as strconv.Atoi delivers them: no range check is made
RatingInputs == {-1, 0, 5}
\* the review ids a delete request can name: the stored ones and an unknown one
ReviewIds == 1..(MaxReviews + 1)

\* what time.Now() can return: an instant after the zero time
Times == {1}

\* a password: its text and the length of the text
Password(text, len) == [text |-> text, len |-> len]
\* bcrypt: the stored hash of a password
Bcrypt(password) == <<"bcrypt", password.text>>
\* the users table: a regular user and an administrator
Users ==
    {[ID |-> 1, Role |-> "user", Email |-> "user@shopit",
      Password |-> Bcrypt(Password("user-password", 13))],
     [ID |-> 2, Role |-> "admin", Email |-> "admin@shopit",
      Password |-> Bcrypt(Password("admin-password", 14))]}
UserIds == {u.ID : u \in Users}
\* the goroutines that serve requests concurrently
Workers == {1, 2}
\* a worker that serves no request
Idle == [pc |-> "idle"]
\* the first instant of the clock, after the zero time
InitClock == ZeroTime + 1
\* make(map[string]*rate.Limiter)
NoVisitors == [ip \in {} |-> [tokens |-> 0, at |-> ZeroTime]]

(***************************************************************************)
(* Helpers.                                                                *)
(***************************************************************************)
RECURSIVE SetToSeq(_)
SetToSeq(S) ==
    IF S = {} THEN <<>>
    ELSE LET x == CHOOSE y \in S : TRUE IN <<x>> \o SetToSeq(S \ {x})

\* the repository calls a request has issued so far, with their outcome
Call(D, name, arg, err) ==
    [D EXCEPT !.calls = Append(@, [call |-> name, arg |-> arg, err |-> err])]

Res(D, val, err) == [db |-> D, val |-> val, err |-> err]

\* what a repository call hands back, the call noted
Ret(D, name, arg, val, err) == Res(Call(D, name, arg, err), val, err)

\* a repository call that failed at the database
Failed(D, name, arg) == Ret(D, name, arg, <<>>, ErrDB(name))

\* what a use case hands back to the handler, noted after its repository calls
Return(name, arg, r) == [r EXCEPT !.db = Call(@, name, arg, r.err)]

(***************************************************************************)
(* models.Order and its parts, as the handlers and use cases pass them.    *)
(***************************************************************************)
Shipping(id, orderId) == [ID |-> id, OrderID |-> orderId]

Item(itemId, quantity, productId, orderId) ==
    [ItemID |-> itemId, Quantity |-> quantity, ProductID |-> productId,
     OrderID |-> orderId]

Payment(id, orderId) == [ID |-> id, OrderID |-> orderId]

Order(orderId, shipping, orderItems, payment, status, deliveredAt) ==
    [OrderID |-> orderId, ShippingInfo |-> shipping, OrderItems |-> orderItems,
     PaymentInfo |-> payment, OrderStatus |-> status, DeliveredAt |-> deliveredAt]

\* the row of the orders table a models.Order is stored as
OrderRow(o) ==
    [OrderID |-> o.OrderID, OrderStatus |-> o.OrderStatus,
     DeliveredAt |-> o.DeliveredAt]

\* a models.Order scanned from a row of the orders table
OrderOfRow(row) ==
    Order(row.OrderID, Shipping(NilUUID, NilUUID), <<>>, Payment("", NilUUID),
          row.OrderStatus, row.DeliveredAt)

(***************************************************************************)
(* OrdersRepository.                                                       *)
(***************************************************************************)
\* an insert that stays invisible until a commit that comes with the last one
InsertOrderDeferred(D, order, fail) ==
    IF fail THEN Failed(D, "InsertOrder", NilUUID)
    ELSE LET id == D.seq.orders + 1
             D1 == [D EXCEPT !.seq.orders = id]
         IN Ret(D1, "InsertOrder", id, <<[order EXCEPT !.OrderID = id]>>, Nil)

InsertOrder(D, order, fail) ==
    IF fail THEN Failed(D, "InsertOrder", NilUUID)
    ELSE LET id == D.seq.orders + 1
             stored == [order EXCEPT !.OrderID = id]
             D1 == [D EXCEPT !.orders = @ \cup {OrderRow(stored)},
                             !.seq.orders = id]
         IN Ret(D1, "InsertOrder", id, <<stored>>, Nil)

InsertShipping(D, shipping, fail) ==
    IF fail THEN Failed(D, "InsertShipping", shipping.OrderID)
    ELSE IF \A o \in D.orders : o.OrderID # shipping.OrderID
    THEN Ret(D, "InsertShipping", shipping.OrderID, <<>>, ErrConstraint("InsertShipping"))
    ELSE LET id == D.seq.shippings + 1
             stored == [shipping EXCEPT !.ID = id]
             D1 == [D EXCEPT !.shippings = @ \cup {stored}, !.seq.shippings = id]
         IN Ret(D1, "InsertShipping", shipping.OrderID, <<stored>>, Nil)

InsertItem(D, item, fail) ==
    IF fail THEN Failed(D, "InsertItem", item.OrderID)
    ELSE IF \/ item.ProductID \notin DOMAIN D.products
            \/ \A o \in D.orders : o.OrderID # item.OrderID
    THEN Ret(D, "InsertItem", item.OrderID, <<>>, ErrConstraint("InsertItem"))
    ELSE LET id == D.seq.items + 1
             stored == [item EXCEPT !.ItemID = id]
             D1 == [D EXCEPT !.items = @ \cup {stored}, !.seq.items = id]
         IN Ret(D1, "InsertItem", item.OrderID, <<stored>>, Nil)

InsertPayment(D, p, fail) ==
    IF fail THEN Failed(D, "InsertPayment", p.OrderID)
    ELSE IF \/ \E q \in D.payments : q.ID = p.ID
            \/ \A o \in D.orders : o.OrderID # p.OrderID
    THEN Ret(D, "InsertPayment", p.OrderID, <<>>, ErrConstraint("InsertPayment"))
    ELSE LET D1 == [D EXCEPT !.payments = @ \cup {p}]
         IN Ret(D1, "InsertPayment", p.OrderID, <<p>>, Nil)

FetchOrderById(D, id, fail) ==
    LET rows == {o \in D.orders : o.OrderID = id} IN
    IF fail THEN Failed(D, "FetchOrderById", id)
    ELSE IF rows = {} THEN Ret(D, "FetchOrderById", id, <<>>, ErrNoRows)
    ELSE Ret(D, "FetchOrderById", id, <<OrderOfRow(CHOOSE o \in rows : TRUE)>>, Nil)

FetchShippingById(D, orderId, fail) ==
    LET rows == {s \in D.shippings : s.OrderID = orderId} IN
    IF fail THEN Failed(D, "FetchShippingById", orderId)
    ELSE IF rows = {}
    THEN Ret(D, "FetchShippingById", orderId, <<>>, ErrNoRows)
    ELSE Ret(D, "FetchShippingById", orderId, <<CHOOSE s \in rows : TRUE>>, Nil)

FetchItemsById(D, orderId, fail) ==
    LET rows == {i \in D.items : i.OrderID = orderId} IN
    IF fail THEN Failed(D, "FetchItemsById", orderId)
    ELSE Ret(D, "FetchItemsById", orderId, SetToSeq(rows), Nil)

FetchPaymentById(D, orderId, fail) ==
    LET rows == {p \in D.payments : p.OrderID = orderId} IN
    IF fail THEN Failed(D, "FetchPaymentById", orderId)
    ELSE IF rows = {}
    THEN Ret(D, "FetchPaymentById", orderId, <<>>, ErrNoRows)
    ELSE Ret(D, "FetchPaymentById", orderId, <<CHOOSE p \in rows : TRUE>>, Nil)

\* a schema whose foreign keys do not cascade
NoCascade(D, orderId) == D

\* the rows of the dependent tables go with the header: ON DELETE CASCADE
OrdersCascade(D, orderId) ==
    [D EXCEPT !.shippings = {s \in @ : s.OrderID # orderId},
              !.items = {i \in @ : i.OrderID # orderId},
              !.payments = {p \in @ : p.OrderID # orderId}]

\* a delete whose where clause matches no row
DeleteNoRow(D, orderId, fail) ==
    IF fail THEN Failed(D, "DeleteOrderById", orderId)
    ELSE Ret(D, "DeleteOrderById", orderId, <<>>, Nil)

DeleteOrderById(D, orderId, fail) ==
    IF fail THEN Failed(D, "DeleteOrderById", orderId)
    ELSE LET D1 == [D EXCEPT !.orders = {o \in @ : o.OrderID # orderId}]
         IN Ret(OrdersCascade(D1, orderId), "DeleteOrderById", orderId, <<>>, Nil)

RepoUpdateOrder(D, orderId, ord, fail) ==
    IF fail THEN Failed(D, "UpdateOrder", orderId)
    ELSE LET D1 == [D EXCEPT !.orders =
                       {IF o.OrderID = orderId
                        THEN [o EXCEPT !.OrderStatus = ord.OrderStatus,
                                       !.DeliveredAt = ord.DeliveredAt]
                        ELSE o : o \in @}]
         IN Ret(D1, "UpdateOrder", orderId, <<>>, Nil)

RepoUpdateStock(D, productId, quantity, fail) ==
    IF fail THEN Failed(D, "UpdateStock", productId)
    ELSE LET D1 == IF productId \in DOMAIN D.products
                   THEN [D EXCEPT !.products[productId].Stock = @ - quantity]
                   ELSE D
         IN Ret(D1, "UpdateStock", productId, <<>>, Nil)

(***************************************************************************)
(* OrderUC.                                                                *)
(***************************************************************************)
\* fails: the repository calls that fail for this request
CreateOrder(D, ord, fails) ==
    Return("OrderUC.CreateOrder", NilUUID,
    (LET r1 == InsertOrder(D, ord, "InsertOrder" \in fails) IN
    IF r1.err # Nil THEN Res(r1.db, <<>>, r1.err)
    ELSE
    LET order == r1.val[1]
        r2 == InsertShipping(r1.db, [ord.ShippingInfo EXCEPT !.OrderID = order.OrderID],
                             "InsertShipping" \in fails)
    IN
    IF r2.err # Nil
    THEN LET d == DeleteOrderById(r2.db, order.OrderID, "DeleteOrderById" \in fails)
         IN Res(d.db, <<>>, d.err)
    ELSE
    \* ord.OrderItems[0] is a pointer the order InsertOrder returned shares
    LET item0 == [ord.OrderItems[1] EXCEPT !.OrderID = order.OrderID]
        r3 == InsertItem(r2.db, item0, "InsertItem" \in fails)
    IN
    IF r3.err # Nil
    THEN LET d == DeleteOrderById(r3.db, order.OrderID, "DeleteOrderById" \in fails)
         IN Res(d.db, <<>>, d.err)
    ELSE
    LET r4 == InsertPayment(r3.db, [ord.PaymentInfo EXCEPT !.OrderID = order.OrderID],
                            "InsertPayment" \in fails)
    IN
    IF r4.err # Nil
    THEN LET d == DeleteOrderById(r4.db, order.OrderID, "DeleteOrderById" \in fails)
         IN Res(d.db, <<>>, d.err)
    ELSE Res(r4.db,
             <<[order EXCEPT !.ShippingInfo = r2.val[1],
                             !.OrderItems = Append(<<item0>>, r3.val[1]),
                             !.PaymentInfo = r4.val[1]]>>,
             Nil)))

GetSingleOrder(D, orderId, fails) ==
    Return("OrderUC.GetSingleOrder", orderId,
    (LET r1 == FetchOrderById(D, orderId, "FetchOrderById" \in fails) IN
    IF r1.err # Nil THEN Res(r1.db, <<>>, r1.err)
    ELSE
    LET r2 == FetchShippingById(r1.db, orderId, "FetchShippingById" \in fails) IN
    IF r2.err # Nil THEN Res(r2.db, <<>>, r2.err)
    ELSE
    LET r3 == FetchItemsById(r2.db, orderId, "FetchItemsById" \in fails) IN
    IF r3.err # Nil THEN Res(r3.db, <<>>, r3.err)
    ELSE
    LET r4 == FetchPaymentById(r3.db, orderId, "FetchPaymentById" \in fails) IN
    IF r4.err # Nil THEN Res(r4.db, <<>>, r4.err)
    ELSE Res(r4.db,
             <<[r1.val[1] EXCEPT !.ShippingInfo = r2.val[1],
                                 !.OrderItems = r3.val,
                                 !.PaymentInfo = r4.val[1]]>>,
             Nil)))

UCUpdateOrder(D, order, fails) ==
    Return("OrderUC.UpdateOrder", order.OrderID,
    (LET r == RepoUpdateOrder(D, order.OrderID, order, "UpdateOrder" \in fails) IN
    IF r.err # Nil THEN Res(r.db, <<>>, r.err) ELSE Res(r.db, <<>>, Nil)))

UCUpdateStock(D, productId, quantity, fails) ==
    Return("OrderUC.UpdateStock", productId,
    (LET r == RepoUpdateStock(D, productId, quantity, "UpdateStock" \in fails) IN
    IF r.err # Nil THEN Res(r.db, <<>>, Nil) ELSE Res(r.db, <<>>, Nil)))

DeleteOrder(D, orderId, fails) ==
    Return("OrderUC.DeleteOrder", orderId,
    (LET r == DeleteOrderById(D, orderId, "DeleteOrderById" \in fails) IN
    IF r.err # Nil THEN Res(r.db, <<>>, r.err) ELSE Res(r.db, <<>>, Nil)))

(***************************************************************************)
(* ProdRepository: the product row and the reviews of a product.           *)
(***************************************************************************)
Review(reviewsId, rating, productId) ==
    [ReviewsId |-> reviewsId, Rating |-> rating, ProductId |-> productId]

FetchProductById(D, id, fail) ==
    IF fail THEN Failed(D, "FetchProductById", id)
    ELSE IF id \notin DOMAIN D.products
    THEN Ret(D, "FetchProductById", id, <<>>, ErrNoRows)
    ELSE Ret(D, "FetchProductById", id, <<D.products[id]>>, Nil)

FetchReviewById(D, productId, fail) ==
    LET rows == {r \in D.reviews : r.ProductId = productId} IN
    IF fail THEN Failed(D, "FetchReviewById", productId)
    ELSE Ret(D, "FetchReviewById", productId, SetToSeq(rows), Nil)

InsertReview(D, review, fail) ==
    IF fail THEN Failed(D, "InsertReview", review.ProductId)
    ELSE IF review.ProductId \notin DOMAIN D.products
    THEN Ret(D, "InsertReview", review.ProductId, <<>>, ErrConstraint("InsertReview"))
    ELSE LET id == D.seq.reviews + 1
             D1 == [D EXCEPT !.reviews = @ \cup {[review EXCEPT !.ReviewsId = id]},
                             !.seq.reviews = id]
         IN Ret(D1, "InsertReview", review.ProductId, <<>>, Nil)

\* an update whose where clause matches no row and that reports success
UpdateNoRow(D, productId, p, fail) ==
    IF fail THEN Failed(D, "UpdateProduct", productId)
    ELSE Ret(D, "UpdateProduct", productId, <<p>>, Nil)

\* an update that counts the reviews of the table itself
UpdateCounting(D, productId, p, fail) ==
    IF fail THEN Failed(D, "UpdateProduct", productId)
    ELSE IF productId \notin DOMAIN D.products
    THEN Ret(D, "UpdateProduct", productId, <<>>, ErrNoRows)
    ELSE LET q == [p EXCEPT !.NumOfReviews =
                      Cardinality({r \in D.reviews : r.ProductId = productId})]
         IN Ret([D EXCEPT !.products[productId] = q], "UpdateProduct", productId,
                <<q>>, Nil)

\* every column of the row is written from p
UpdateProduct(D, productId, p, fail) ==
    IF fail THEN Failed(D, "UpdateProduct", productId)
    ELSE IF productId \notin DOMAIN D.products
    THEN Ret(D, "UpdateProduct", productId, <<>>, ErrNoRows)
    ELSE Ret([D EXCEPT !.products[productId] = p], "UpdateProduct", productId, <<p>>, Nil)

DeleteReviewById(D, reviewId, fail) ==
    IF fail THEN Failed(D, "DeleteReviewById", reviewId)
    ELSE Res(Call([D EXCEPT !.reviews = {r \in @ : r.ReviewsId # reviewId}],
                  "DeleteReviewById", reviewId, Nil),
             <<>>, Nil)

(***************************************************************************)
(* ProductsUC: the review aggregate.                                       *)
(***************************************************************************)
ErrFetchingProduct == <<"error fetching product">>
ErrFetchingReviews == <<"error fetching reviews">>
ErrInsertingReviews == <<"error inserting reviews">>
ErrUpdatingProduct == <<"error updating product">>
ErrDeletingReview == <<"error deleting review">>
PanicDivideByZero == <<"panic: runtime error: integer divide by zero">>

\* a division that rounds toward minus infinity
FloorQuo(a, b) == a \div b

\* Go's a / b on ints, b # 0: the quotient truncated toward zero
Quo(a, b) ==
    LET abs(x) == IF x < 0 THEN -x ELSE x
        q == abs(a) \div abs(b)
    IN IF (a < 0) = (b < 0) THEN q ELSE -q

RECURSIVE TotalRating(_)
TotalRating(reviews) ==
    IF reviews = <<>> THEN 0
    ELSE Head(reviews).Rating + TotalRating(Tail(reviews))

\* totalRating / len(reviews)
MeanRating(reviews) == Quo(TotalRating(reviews), Len(reviews))

CreateProductReview(D, review, fails) ==
    Return("ProductsUC.CreateProductReview", review.ProductId,
    (LET r1 == FetchProductById(D, review.ProductId, "FetchProductById" \in fails) IN
    IF r1.err # Nil THEN Res(r1.db, <<>>, ErrFetchingProduct)
    ELSE
    LET r2 == FetchReviewById(r1.db, review.ProductId, "FetchReviewById" \in fails) IN
    IF r2.err # Nil THEN Res(r2.db, <<>>, ErrFetchingReviews)
    ELSE
    LET reviews == Append(r2.val, review)
        r3 == InsertReview(r2.db, review, "InsertReview" \in fails)
    IN
    IF r3.err # Nil THEN Res(r3.db, <<>>, ErrInsertingReviews)
    ELSE
    LET product == [r1.val[1] EXCEPT !.NumOfReviews = Len(reviews),
                                     !.Ratings = MeanRating(reviews)]
        r4 == UpdateProduct(r3.db, review.ProductId, product, "UpdateProduct" \in fails)
    IN
    IF r4.err # Nil THEN Res(r4.db, <<>>, ErrUpdatingProduct)
    ELSE Res(r4.db, <<>>, Nil)))

DeleteProductReview(D, productId, reviewId, fails) ==
    Return("ProductsUC.DeleteProductReview", productId,
    (LET r1 == DeleteReviewById(D, reviewId, "DeleteReviewById" \in fails) IN
    IF r1.err # Nil THEN Res(r1.db, <<>>, ErrDeletingReview)
    ELSE
    LET r2 == FetchProductById(r1.db, productId, "FetchProductById" \in fails) IN
    IF r2.err # Nil THEN Res(r2.db, <<>>, ErrFetchingProduct)
    ELSE
    LET r3 == FetchReviewById(r2.db, productId, "FetchReviewById" \in fails) IN
    IF r3.err # Nil THEN Res(r3.db, <<>>, ErrFetchingReviews)
    ELSE
    LET reviews == r3.val IN
    \* the division panics on an empty slice: the call does not return
    IF Len(reviews) = 0 THEN Res(r3.db, <<>>, PanicDivideByZero)
    ELSE
    LET product == [r2.val[1] EXCEPT !.Ratings = MeanRating(reviews),
                                     !.NumOfReviews = Len(reviews)]
        r4 == UpdateProduct(r3.db, productId, product, "UpdateProduct" \in fails)
    IN
    IF r4.err # Nil THEN Res(r4.db, <<>>, ErrUpdatingProduct)
    ELSE Res(r4.db, <<>>, Nil)))

(***************************************************************************)
(* OrderHandlers.                                                          *)
(***************************************************************************)
StatusOK == 200
StatusBadRequest == 400
\* what middleware.Recoverer answers when a handler panics
StatusInternalServerError == 500

ErrFormsMustBeFilled == <<"forms must be filled">>
ErrAlreadyDelivered == <<"you have already delivered this order">>
PanicNilDereference == <<"panic: nil pointer dereference">>

\* a request starts with no repository call made
NewRequest(D) == [D EXCEPT !.calls = <<>>]

\* the response: the status code, the message of an error response, the payload
Reply(D, code, msg, val) == [db |-> D, code |-> code, msg |-> msg, val |-> val]

\* a handler that creates its orders as shipped
NewOrderShipped(quantity, productId, paymentRef) ==
    Order(NilUUID, Shipping(NilUUID, NilUUID),
          <<Item(NilUUID, quantity, productId, NilUUID)>>,
          Payment(paymentRef, NilUUID), "Shipped", ZeroTime)

\* the order the handler assembles from the payload
NewOrder(quantity, productId, paymentRef) ==
    Order(NilUUID, Shipping(NilUUID, NilUUID),
          <<Item(NilUUID, quantity, productId, NilUUID)>>,
          Payment(paymentRef, NilUUID), "Processing", ZeroTime)

HandleCreateOrder(D, quantity, productId, paymentRef, fails) ==
    LET r == CreateOrder(D, NewOrder(quantity, productId, paymentRef), fails) IN
    IF r.err # Nil THEN Reply(r.db, StatusBadRequest, r.err, <<>>)
    \* Order: *ord, with a nil ord
    ELSE IF r.val = <<>>
    THEN Reply(r.db, StatusInternalServerError, PanicNilDereference, <<>>)
    ELSE Reply(r.db, StatusOK, Nil, r.val)

\* a handler that lets a delivered order through
NeverDelivered(order) == FALSE

AlreadyDelivered(order) == order.OrderStatus = "Delivered"

\* a handler that stamps the delivery time whatever the status
DeliveredAtNow(status, now) == now

DeliveredAtFor(status, now) == IF status = "Delivered" THEN now ELSE ZeroTime

RECURSIVE UpdateStocks(_, _, _)
UpdateStocks(D, orderItems, fails) ==
    IF orderItems = <<>> THEN Res(D, <<>>, Nil)
    ELSE LET item == Head(orderItems)
             r == UCUpdateStock(D, item.ProductID, item.Quantity, fails)
         IN IF r.err # Nil THEN Res(r.db, <<>>, r.err)
            ELSE UpdateStocks(r.db, Tail(orderItems), fails)

HandleUpdateOrder(D, id, status, now, fails) ==
    IF status = "" THEN Reply(D, StatusBadRequest, ErrFormsMustBeFilled, <<>>)
    ELSE
    LET g == GetSingleOrder(D, id, fails) IN
    IF g.err # Nil THEN Reply(g.db, StatusBadRequest, g.err, <<>>)
    ELSE IF AlreadyDelivered(g.val[1])
    THEN Reply(g.db, StatusBadRequest, ErrAlreadyDelivered, <<>>)
    ELSE
    LET s == UpdateStocks(g.db, g.val[1].OrderItems, fails) IN
    IF s.err # Nil THEN Reply(s.db, StatusBadRequest, s.err, <<>>)
    ELSE
    LET order == [g.val[1] EXCEPT !.OrderStatus = status,
                                  !.DeliveredAt = DeliveredAtFor(status, now)]
        u == UCUpdateOrder(s.db, order, fails)
    IN
    IF u.err # Nil THEN Reply(u.db, StatusBadRequest, u.err, <<>>)
    ELSE Reply(u.db, StatusOK, Nil, <<>>)

HandleDeleteOrder(D, id, fails) ==
    LET r == DeleteOrder(D, id, fails) IN
    IF r.err # Nil THEN Reply(r.db, StatusBadRequest, r.err, <<>>)
    ELSE Reply(r.db, StatusOK, Nil, <<>>)

HandleGetSingleOrder(D, id, fails) ==
    LET r == GetSingleOrder(D, id, fails) IN
    IF r.err # Nil THEN Reply(r.db, StatusBadRequest, r.err, <<>>)
    ELSE Reply(r.db, StatusOK, Nil, r.val)

(***************************************************************************)
(* ProdHandlers: the review endpoints.                                     *)
(***************************************************************************)
ErrSomethingWentWrong == <<"something went wrong, try again">>

Panicked(err) == err \in {PanicDivideByZero, PanicNilDereference}

HandleCreateProductReview(D, rating, productId, fails) ==
    LET r == CreateProductReview(D, Review(NilUUID, rating, productId), fails) IN
    IF r.err # Nil THEN Reply(r.db, StatusBadRequest, ErrSomethingWentWrong, <<>>)
    ELSE Reply(r.db, StatusOK, Nil, <<>>)

HandleDeleteProductReview(D, productId, reviewId, fails) ==
    LET r == DeleteProductReview(D, productId, reviewId, fails) IN
    IF Panicked(r.err) THEN Reply(r.db, StatusInternalServerError, r.err, <<>>)
    ELSE IF r.err # Nil THEN Reply(r.db, StatusBadRequest, ErrSomethingWentWrong, <<>>)
    ELSE Reply(r.db, StatusOK, Nil, <<>>)

(***************************************************************************)
(* The failures of the database a request can meet.  The first failing     *)
(* insert ends CreateOrder, so one failing insert, with or without a       *)
(* failing compensating delete, covers its outcomes.                       *)
(***************************************************************************)
OrderInserts == {"InsertOrder", "InsertShipping", "InsertItem", "InsertPayment"}

CreateOrderFaults ==
    {{}} \cup {{c} : c \in OrderInserts}
         \cup {{c, "DeleteOrderById"} : c \in OrderInserts \ {"InsertOrder"}}

UpdateOrderFaults ==
    {{}} \cup {{c} : c \in {"FetchOrderById", "FetchShippingById", "FetchItemsById",
                            "FetchPaymentById", "UpdateStock", "UpdateOrder"}}
         \cup {{"UpdateStock", "UpdateOrder"}}

DeleteOrderFaults == {{}, {"DeleteOrderById"}}

GetSingleOrderFaults ==
    {{}} \cup {{c} : c \in {"FetchOrderById", "FetchShippingById",
                            "FetchItemsById", "FetchPaymentById"}}

(***************************************************************************)
(* State.  db is the database (and, in calls, the repository calls of the  *)
(* latest request); last is the latest request and its response.           *)
(***************************************************************************)
InitDB ==
    [orders |-> {}, shippings |-> {}, items |-> {}, payments |-> {},
     products |-> [p \in ProductIds |->
                      [Stock |-> InitStock, Ratings |-> 0, NumOfReviews |-> 0]],
     reviews |-> {},
     users |-> Users, tokens |-> {},
     seq |-> [orders |-> 0, shippings |-> 0, items |-> 0, reviews |-> 0,
              tokens |-> 0],
     calls |-> <<>>]

Init ==
    /\ db = InitDB
    /\ last = [op |-> "none", id |-> NilUUID, status |-> "", code |-> 0,
               msg |-> Nil, val |-> <<>>]
    /\ clock = InitClock
    /\ inflight = [w \in Workers |-> Idle]
    /\ visitors = NoVisitors

\* the response of a request is written and the request is over
Answer(op, id, status, r) ==
    /\ db' = r.db
    /\ last' = [op |-> op, id |-> id, status |-> status, code |-> r.code,
                msg |-> r.msg, val |-> r.val]

\* a request served in one step
Done(op, id, status, r) ==
    /\ Answer(op, id, status, r)
    /\ UNCHANGED <<clock, inflight, visitors>>

\* POST /api/v1/orders/new
CreateOrderRequest ==
    /\ db.seq.orders < MaxOrders
    /\ \E quantity \in Quantities, productId \in ProductIds,
          paymentRef \in PaymentRefs, fails \in CreateOrderFaults :
          Done("CreateOrder", NilUUID, "",
               HandleCreateOrder(NewRequest(db), quantity, productId,
                                 paymentRef, fails))

\* PUT /api/v1/orders/admin/order/{id}
UpdateOrderRequest ==
    /\ \A p \in ProductIds : db.products[p].Stock > -MaxOversell
    /\ \E id \in 1..MaxOrders, status \in StatusInputs, now \in Times,
          fails \in UpdateOrderFaults :
          Done("UpdateOrder", id, status,
               HandleUpdateOrder(NewRequest(db), id, status, now, fails))

\* DELETE /api/v1/orders/admin/order/{id}
DeleteOrderRequest ==
    \E id \in 1..MaxOrders, fails \in DeleteOrderFaults :
        Done("DeleteOrder", id, "", HandleDeleteOrder(NewRequest(db), id, fails))

\* GET /api/v1/orders/{id}
GetSingleOrderRequest ==
    \E id \in 1..MaxOrders, fails \in GetSingleOrderFaults :
        Done("GetSingleOrder", id, "",
             HandleGetSingleOrder(NewRequest(db), id, fails))

NextOrders ==
    \/ CreateOrderRequest
    \/ UpdateOrderRequest
    \/ DeleteOrderRequest
    \/ GetSingleOrderRequest

SpecOrders == Init /\ [][NextOrders]_vars

CreateReviewFaults ==
    {{}} \cup {{c} : c \in {"FetchProductById", "FetchReviewById", "InsertReview",
                            "UpdateProduct"}}

DeleteReviewFaults ==
    {{}} \cup {{c} : c \in {"DeleteReviewById", "FetchProductById", "FetchReviewById",
                            "UpdateProduct"}}

\* PUT /api/v1/product/review
CreateProductReviewRequest ==
    /\ db.seq.reviews < MaxReviews
    /\ \E rating \in RatingInputs, productId \in ProductIds \cup {NilUUID},
          fails \in CreateReviewFaults :
          Done("CreateProductReview", productId, "",
               HandleCreateProductReview(NewRequest(db), rating, productId, fails))

\* DELETE /api/v1/product/reviews
DeleteProductReviewRequest ==
    \E productId \in ProductIds \cup {NilUUID}, reviewId \in ReviewIds,
       fails \in DeleteReviewFaults :
        Done("DeleteProductReview", productId, "",
             HandleDeleteProductReview(NewRequest(db), productId, reviewId, fails))

NextReviews == CreateProductReviewRequest \/ DeleteProductReviewRequest

SpecReviews == Init /\ [][NextReviews]_vars

Next == NextOrders \/ NextReviews

Spec == Init /\ [][Next]_vars

(***************************************************************************)
(* What the claims speak of: the calls of the latest request.              *)
(***************************************************************************)
Calls == db.calls

\* the error the use case `name` returned to the handler
Returned(name) ==
    Calls[CHOOSE i \in DOMAIN Calls : Calls[i].call = name].err

\* CreateOrder ran and its header insert succeeded
HeaderInserted ==
    /\ last.op = "CreateOrder"
    /\ Calls # <<>>
    /\ Calls[1].call = "InsertOrder"
    /\ Calls[1].err = Nil

\* the id the header insert generated
HeaderId == Calls[1].arg

\* the dependent inserts of the latest request that failed
FailedDependents ==
    {i \in DOMAIN Calls :
        /\ Calls[i].call \in {"InsertShipping", "InsertItem", "InsertPayment"}
        /\ Calls[i].err # Nil}

ShippingFailed ==
    \E i \in FailedDependents : Calls[i].call = "InsertShipping"

\* the compensating delete was issued, and with which outcome
DeleteIssued ==
    \E j \in DOMAIN Calls :
        Calls[j].call = "DeleteOrderById" /\ Calls[j].arg = HeaderId

DeleteSucceeded ==
    \E j \in DOMAIN Calls :
        /\ Calls[j].call = "DeleteOrderById"
        /\ Calls[j].arg = HeaderId
        /\ Calls[j].err = Nil

\* the rows the store holds for an order id, in any of the four tables
RowsOf(orderId) ==
    {o \in db.orders : o.OrderID = orderId}
        \cup {x \in db.shippings : x.OrderID = orderId}
        \cup {x \in db.items : x.OrderID = orderId}
        \cup {x \in db.payments : x.OrderID = orderId}

\* C1: when the shipping, item or payment insert fails after the header insert
\* succeeded, CreateOrder issues the compensating delete and returns the
\* error of the failed insert.
C1_ReturnsInsertError ==
    (HeaderInserted /\ FailedDependents # {}) =>
        /\ DeleteIssued
        /\ \A i \in FailedDependents : Returned("OrderUC.CreateOrder") = Calls[i].err

C4_ReturnedOrderComplete ==
    (last.op = "CreateOrder" /\ last.code = StatusOK) =>
        LET order == last.val[1] IN
        /\ order.OrderID # NilUUID
        /\ order.ShippingInfo.ID # NilUUID
        /\ \A i \in DOMAIN order.OrderItems : order.OrderItems[i].ItemID # NilUUID
        /\ order.PaymentInfo.ID # ""
        /\ order.ShippingInfo.OrderID = order.OrderID
        /\ \A i \in DOMAIN order.OrderItems :
               order.OrderItems[i].OrderID = order.OrderID
        /\ order.PaymentInfo.OrderID = order.OrderID

\* the stored row of an order
StoredOrder(D, orderId) == CHOOSE o \in D.orders : o.OrderID = orderId

IsStored(D, orderId) == \E o \in D.orders : o.OrderID = orderId

\* C5: a status transition requested for an order whose stored status is
\* "Delivered" is rejected, and the stored status is "Delivered" afterwards.
C5_DeliveredIsFinal ==
    [][(/\ last'.op = "UpdateOrder"
        /\ IsStored(db, last'.id)
        /\ StoredOrder(db, last'.id).OrderStatus = "Delivered")
       => (/\ last'.code = StatusBadRequest
           /\ IsStored(db', last'.id)
           /\ StoredOrder(db', last'.id).OrderStatus = "Delivered")]_vars

\* a transition was refused because the order had been delivered
C5_Witness ==
    /\ last.op = "UpdateOrder"
    /\ last.code = StatusBadRequest
    /\ last.msg = ErrAlreadyDelivered
    /\ StoredOrder(db, last.id).OrderStatus = "Delivered"

\* C6: after a successful transition the stored delivered timestamp is
\* non-zero when the new status is exactly "Delivered" and zero otherwise.
C6_DeliveredAtFollowsStatus ==
    (last.op = "UpdateOrder" /\ last.code = StatusOK) =>
        /\ IsStored(db, last.id)
        /\ StoredOrder(db, last.id).OrderStatus = last.status
        /\ IF last.status = "Delivered"
           THEN StoredOrder(db, last.id).DeliveredAt # ZeroTime
           ELSE StoredOrder(db, last.id).DeliveredAt = ZeroTime

C6_Witness ==
    /\ last.op = "UpdateOrder"
    /\ last.code = StatusOK
    /\ last.status = "Delivered"
    /\ StoredOrder(db, last.id).DeliveredAt # ZeroTime

RECURSIVE TotalQuantity(_)
TotalQuantity(rows) ==
    IF rows = {} THEN 0
    ELSE LET x == CHOOSE y \in rows : TRUE
         IN x.Quantity + TotalQuantity(rows \ {x})

\* what the items of an order ask of a product
Ordered(D, orderId, productId) ==
    TotalQuantity({i \in D.items : i.OrderID = orderId /\ i.ProductID = productId})

\* C7: a status transition that is not rejected lowers the stock of each
\* item's product by exactly the item's quantity, whatever the stock is.
C7_StockDecremented ==
    [][(last'.op = "UpdateOrder" /\ last'.code = StatusOK)
       => \A p \in ProductIds :
              db'.products[p].Stock
                  = db.products[p].Stock - Ordered(db, last'.id, p)]_vars

\* C8: OrderUC.UpdateStock returns a non-nil error whenever the repository's
\* stock update fails.
C8_UpdateStockReturnsError ==
    \A i \in DOMAIN Calls :
        (Calls[i].call = "UpdateStock" /\ Calls[i].err # Nil)
            => /\ i < Len(Calls)
               /\ Calls[i + 1].call = "OrderUC.UpdateStock"
               /\ Calls[i + 1].err # Nil

\* the stored reviews of a product
ReviewsOf(D, productId) == {r \in D.reviews : r.ProductId = productId}

RECURSIVE SumOfRatings(_)
SumOfRatings(rows) ==
    IF rows = {} THEN 0
    ELSE LET x == CHOOSE y \in rows : TRUE
         IN x.Rating + SumOfRatings(rows \ {x})

\* q is a / n rounded toward zero: the remainder is smaller than n and has
\* the sign of a
IsTruncatedQuotient(q, a, n) ==
    LET r == a - q * n IN
    /\ r < n
    /\ -r < n
    /\ (r > 0 => a > 0)
    /\ (r < 0 => a < 0)

C10_DeleteLastReviewReturns ==
    [][(/\ last'.op = "DeleteProductReview"
        /\ \E r \in db.reviews :
              /\ ReviewsOf(db, last'.id) = {r}
              /\ db'.calls[1] = [call |-> "DeleteReviewById", arg |-> r.ReviewsId,
                                 err |-> Nil])
       => (/\ ~Panicked(db'.calls[Len(db'.calls)].err)
           /\ last'.code # StatusInternalServerError)]_vars

TokenLength == 26

PlainText(n) == <<n, TokenLength>>

Sha256(text) == <<"sha256", text>>

\* the next random value, the expiry ttl from now
GenerateToken(D, userID, ttl, now) ==
    LET n == D.seq.tokens + 1 IN
    Res([D EXCEPT !.seq.tokens = n],
        <<[PlainText |-> PlainText(n), Hash |-> Sha256(PlainText(n)),
           Expiry |-> now + ttl, UserID |-> userID]>>, Nil)

(***************************************************************************)
(* AuthRepository.                                                         *)
(***************************************************************************)
FetchUserByEmail(D, email, fail) ==
    LET rows == {u \in D.users : u.Email = email} IN
    IF fail THEN Failed(D, "FetchUserByEmail", email)
    ELSE IF rows = {} THEN Ret(D, "FetchUserByEmail", email, <<>>, ErrNoRows)
    ELSE Ret(D, "FetchUserByEmail", email, <<CHOOSE u \in rows : TRUE>>, Nil)

\* a join that ignores the expiry
TokenRowsAnyExpiry(D, token, now) ==
    {t \in D.tokens : t.Hash = Sha256(token) /\ \E u \in D.users : u.ID = t.UserID}

\* the rows of users joined with tokens on the hash, the expiry after now
TokenRows(D, token, now) ==
    {t \in D.tokens : /\ t.Hash = Sha256(token)
                      /\ t.Expiry > now
                      /\ \E u \in D.users : u.ID = t.UserID}

FetchUserByToken(D, token, now, fail) ==
    LET rows == TokenRows(D, token, now) IN
    IF fail THEN Failed(D, "FetchUserByToken", token)
    ELSE IF rows = {} THEN Ret(D, "FetchUserByToken", token, <<>>, ErrNoRows)
    ELSE LET t == CHOOSE x \in rows : TRUE
         IN Ret(D, "FetchUserByToken", token,
                <<CHOOSE u \in D.users : u.ID = t.UserID>>, Nil)

\* InsertToken, first statement: delete from tokens where user_id = $1
InsertTokenDelete(D, userID, fail) ==
    IF fail THEN Failed(D, "InsertToken.delete", userID)
    ELSE Ret([D EXCEPT !.tokens = {t \in @ : t.UserID # userID}],
             "InsertToken.delete", userID, <<>>, Nil)

\* InsertToken, second statement: insert into tokens
InsertTokenInsert(D, t, userID, fail) ==
    IF fail THEN Failed(D, "InsertToken.insert", userID)
    ELSE Ret([D EXCEPT !.tokens = @ \cup {[Hash |-> t.Hash, Expiry |-> t.Expiry,
                                            UserID |-> userID]}],
             "InsertToken.insert", userID, <<>>, Nil)

\* a logout that deletes nothing
DeleteNoToken(D, userId, fail) ==
    IF fail THEN Failed(D, "DeleteTokenById", userId)
    ELSE Ret(D, "DeleteTokenById", userId, <<>>, Nil)

\* delete from tokens where user_id = $1
DeleteTokenById(D, userId, fail) ==
    IF fail THEN Failed(D, "DeleteTokenById", userId)
    ELSE Ret([D EXCEPT !.tokens = {t \in @ : t.UserID # userId}],
             "DeleteTokenById", userId, <<>>, Nil)

\* every user has the avatar row the registration wrote
FetchAvatarById(D, userId, fail) ==
    IF fail THEN Failed(D, "FetchAvatarById", userId)
    ELSE Ret(D, "FetchAvatarById", userId, <<[UserId |-> userId]>>, Nil)

FetchAllUsers(D, fail) ==
    IF fail THEN Failed(D, "FetchAllUsers", NilUUID)
    ELSE Ret(D, "FetchAllUsers", NilUUID, SetToSeq(D.users), Nil)

(***************************************************************************)
(* AuthUC.  Login is in two parts: InsertToken issues two statements, and  *)
(* other requests are served between them.                                 *)
(***************************************************************************)
ErrFetchingUser == <<"error fetching user by email">>
ErrComparingPassword == <<"error comparing password">>
ErrSavingToken == <<"error saving token">>
ErrFetchingAvatar == <<"error fetching avatar by id">>

\* Login up to the first statement of InsertToken; the value is the user and
\* the generated token when the login goes on
LoginBegin(D, email, password, now, fails) ==
    LET r1 == FetchUserByEmail(D, email, "FetchUserByEmail" \in fails) IN
    IF r1.err # Nil THEN Return("AuthUC.Login", email, Res(r1.db, <<>>, ErrFetchingUser))
    ELSE
    LET u == r1.val[1] IN
    IF u.Password # Bcrypt(password)
    THEN Return("AuthUC.Login", email, Res(r1.db, <<>>, ErrComparingPassword))
    ELSE
    LET r2 == GenerateToken(r1.db, u.ID, TokenTTL, now)
        r3 == InsertTokenDelete(r2.db, u.ID, "InsertToken.delete" \in fails)
    IN
    IF r3.err # Nil
    THEN Return("AuthUC.Login", email,
                Res(Call(r3.db, "InsertToken", u.ID, r3.err), <<>>, ErrSavingToken))
    ELSE Res(r3.db, <<u, r2.val[1]>>, Nil)

\* Login from the second statement of InsertToken on
LoginEnd(D, u, t, fails) ==
    Return("AuthUC.Login", u.Email,
    (LET r4 == InsertTokenInsert(D, t, u.ID, "InsertToken.insert" \in fails)
         D4 == Call(r4.db, "InsertToken", u.ID, r4.err)
     IN
     IF r4.err # Nil THEN Res(D4, <<>>, ErrSavingToken)
     ELSE
     LET r5 == FetchAvatarById(D4, u.ID, "FetchAvatarById" \in fails) IN
     IF r5.err # Nil THEN Res(r5.db, <<>>, ErrFetchingAvatar)
     ELSE Res(r5.db, <<[Success |-> TRUE, Token |-> t.PlainText, User |-> u.ID]>>, Nil)))

DeleteUserToken(D, token, now, fails) ==
    Return("AuthUC.DeleteUserToken", token,
    (LET r1 == FetchUserByToken(D, token, now, "FetchUserByToken" \in fails) IN
     IF r1.err # Nil THEN Res(r1.db, <<>>, r1.err)
     ELSE
     LET r2 == DeleteTokenById(r1.db, r1.val[1].ID, "DeleteTokenById" \in fails) IN
     IF r2.err # Nil THEN Res(r2.db, <<>>, r2.err) ELSE Res(r2.db, <<>>, Nil)))

GetAllUsers(D, fails) ==
    Return("AuthUC.GetAllUsers", NilUUID,
    (LET r == FetchAllUsers(D, "FetchAllUsers" \in fails) IN
     IF r.err # Nil THEN Res(r.db, <<>>, r.err) ELSE Res(r.db, r.val, Nil)))

(***************************************************************************)
(* AuthHandlers and the IsAuthenticated middleware.                        *)
(***************************************************************************)
StatusUnauthorized == 401
StatusUnprocessableEntity == 422

ErrFailedValidation == <<"failed validation">>
ErrLoggingIn == <<"error logging in user, invalid user or user does not exists">>
ErrInvalidCredentials == <<"invalid authentication credentials">>
ErrTokenMustBeProvided == <<"token must be provided">>

\* validator.Check: the field and its message when the check fails
Check(ok, key, message) == IF ok THEN {} ELSE {<<key, message>>}

\* FailedValidation: 422 with the map from field to message
FailedValidation(D, errors) ==
    Reply(D, StatusUnprocessableEntity, ErrFailedValidation,
          <<[Success |-> TRUE, Message |-> ErrFailedValidation,
             Errors |-> errors]>>)

LoginErrors(email, password) ==
    Check(email # "", "email", "user email must be provided")
        \cup Check(password.len > 7, "password",
                   "password must be at least 8 characters")

\* what the handler answers once AuthUC.Login returned
LoginReply(r) ==
    IF r.err # Nil THEN Reply(r.db, StatusBadRequest, ErrLoggingIn, <<>>)
    ELSE Reply(r.db, StatusOK, Nil, r.val)

HandleLogout(D, token, now, fails) ==
    IF token[2] = 0 THEN Reply(D, StatusBadRequest, ErrTokenMustBeProvided, <<>>)
    ELSE LET r == DeleteUserToken(D, token, now, fails) IN
         IF r.err # Nil THEN Reply(r.db, StatusBadRequest, r.err, <<>>)
         ELSE Reply(r.db, StatusOK, Nil, <<>>)

HandleGetAllUsers(D, fails) ==
    LET r == GetAllUsers(D, fails) IN
    IF r.err # Nil THEN Reply(r.db, StatusBadRequest, r.err, <<>>)
    ELSE Reply(r.db, StatusOK, Nil, <<[Success |-> TRUE, Users |-> r.val]>>)

\* the Authorization header split at the blank: no part when it is absent
BearerHeader(token) == <<"Bearer", token>>

\* the header has the form "Bearer <token>" with a token of 26 characters
WellFormed(header) ==
    /\ header # <<>>
    /\ Len(header) = 2
    /\ header[1] = "Bearer"
    /\ header[2][2] = TokenLength

\* the user the request is served for, or the refusal
IsAuthenticated(D, header, now, fail) ==
    LET D0 == Call(D, "IsAuthenticated", header, Nil) IN
    IF ~WellFormed(header) THEN Res(D0, <<>>, ErrInvalidCredentials)
    ELSE LET r == FetchUserByToken(D0, header[2], now, fail) IN
         IF r.err # Nil THEN Res(r.db, <<>>, ErrInvalidCredentials)
         ELSE Res(r.db, r.val, Nil)

\* the endpoints behind IsAuthenticated that the model serves
AdminRoutes == {"GetAllUsers"}
ProtectedRoutes == AdminRoutes

\* next.ServeHTTP: the handler of the route, the user in the context
ServeHTTP(D, route, user, fails) ==
    LET D0 == Call(D, "next.ServeHTTP", route, Nil) IN
    CASE route = "GetAllUsers" -> HandleGetAllUsers(D0, fails)

\* a request to an endpoint behind the middleware
Protected(D, route, header, now, fails) ==
    LET a == IsAuthenticated(D, header, now, "FetchUserByToken" \in fails) IN
    IF a.err # Nil THEN Reply(a.db, StatusUnauthorized, ErrInvalidCredentials, <<>>)
    ELSE ServeHTTP(a.db, route, a.val[1], fails)

(***************************************************************************)
(* The authentication requests.                                            *)
(***************************************************************************)
EmailInputs == {"", "user@shopit", "admin@shopit", "nobody@shopit"}
PasswordInputs ==
    {Password("short", 5), Password("user-password", 13),
     Password("admin-password", 14)}
\* the plain texts a client can present: the generated ones and a forged one
TokenInputs == {PlainText(n) : n \in 0..MaxTokens}
\* the Authorization headers: absent, not a bearer, a bearer of a cut token
\* and a bearer of each plain text
Headers ==
    {<<>>, <<"Basic", PlainText(1)>>, BearerHeader(<<1, 5>>)}
        \cup {BearerHeader(t) : t \in TokenInputs}

LoginBeginFaults == {{}, {"FetchUserByEmail"}, {"InsertToken.delete"}}
LoginEndFaults == {{}, {"InsertToken.insert"}, {"FetchAvatarById"}}
LogoutFaults == {{}, {"FetchUserByToken"}, {"DeleteTokenById"}}
\* the calls of a protected request that can fail: the middleware's and the
\* handler's
ProtectedFaults(route) ==
    {{}, {"FetchUserByToken"}}
        \cup CASE route = "GetAllUsers" -> {{"FetchAllUsers"}}

\* time passes
Tick ==
    /\ clock < MaxClock
    /\ clock' = clock + 1
    /\ UNCHANGED <<db, last, inflight, visitors>>

\* POST /api/v1/auth/login, up to the first statement of InsertToken
LoginRequest(w) ==
    /\ inflight[w] = Idle
    /\ db.seq.tokens < MaxTokens
    /\ \E email \in EmailInputs, password \in PasswordInputs :
        \* a request that fails validation makes no call that could fail
        \E fails \in IF LoginErrors(email, password) # {}
                      THEN {{}} ELSE LoginBeginFaults :
          LET errors == LoginErrors(email, password)
              r == LoginBegin(NewRequest(db), email, password, clock, fails)
          IN
          IF errors # {}
          THEN /\ Answer("Login", NilUUID, "", FailedValidation(NewRequest(db), errors))
               /\ UNCHANGED <<clock, inflight, visitors>>
          ELSE IF r.err # Nil
          THEN /\ Answer("Login", NilUUID, "", LoginReply(r))
               /\ UNCHANGED <<clock, inflight, visitors>>
          ELSE /\ db' = [r.db EXCEPT !.calls = db.calls]
               /\ inflight' = [inflight EXCEPT ![w] =
                                  [pc |-> "InsertToken", user |-> r.val[1],
                                   token |-> r.val[2], calls |-> r.db.calls]]
               /\ UNCHANGED <<last, clock, visitors>>

\* the login goes on: the second statement of InsertToken and the response
LoginInsertToken(w) ==
    /\ inflight[w].pc = "InsertToken"
    /\ \E fails \in LoginEndFaults :
          LET D == [db EXCEPT !.calls = inflight[w].calls]
              r == LoginEnd(D, inflight[w].user, inflight[w].token, fails)
          IN Answer("Login", inflight[w].user.ID, "", LoginReply(r))
    /\ inflight' = [inflight EXCEPT ![w] = Idle]
    /\ UNCHANGED <<clock, visitors>>

\* GET /api/v1/auth/logout/{token}
LogoutRequest ==
    \E token \in TokenInputs, fails \in LogoutFaults :
        Done("Logout", NilUUID, "", HandleLogout(NewRequest(db), token, clock, fails))

\* a request to an endpoint behind IsAuthenticated
ProtectedRequest ==
    \E route \in ProtectedRoutes, header \in Headers :
      \* a request with a malformed header makes no call that could fail
      \E fails \in IF WellFormed(header) THEN ProtectedFaults(route) ELSE {{}} :
        Done(route, NilUUID, "", Protected(NewRequest(db), route, header, clock, fails))

NextAuth ==
    \/ Tick
    \/ \E w \in Workers : LoginRequest(w)
    \/ \E w \in Workers : LoginInsertToken(w)
    \/ LogoutRequest
    \/ ProtectedRequest

SpecAuth == Init /\ [][NextAuth]_vars

\* the stored tokens of a user
TokensOf(D, userID) == {t \in D.tokens : t.UserID = userID}

\* the step in which worker w's InsertToken returns nil
InsertTokenSucceeds(w) ==
    /\ inflight[w].pc = "InsertToken"
    /\ inflight'[w] = Idle
    /\ \E i \in DOMAIN db'.calls :
          /\ db'.calls[i].call = "InsertToken"
          /\ db'.calls[i].err = Nil

\* C12: after InsertToken succeeds for a user, the only token stored for that
\* user is the newly inserted one.
C12_SingleTokenPerUser ==
    [][\A w \in Workers :
          InsertTokenSucceeds(w) =>
              \A t \in TokensOf(db', inflight[w].user.ID) :
                  t.Hash = inflight[w].token.Hash]_vars

\* the step answers a request to an endpoint behind IsAuthenticated
ProtectedStep ==
    /\ last'.op \in ProtectedRoutes
    /\ UNCHANGED <<clock, inflight>>

\* the header the request of the step carried
HeaderOf(D) == D.calls[1].arg

\* the handler behind the middleware ran
Invoked(D) == \E i \in DOMAIN D.calls : D.calls[i].call = "next.ServeHTTP"

\* the header is a bearer token whose SHA-256 hash is a stored hash that has
\* not expired
Authentic(header) ==
    /\ Len(header) = 2
    /\ header[1] = "Bearer"
    /\ \E t \in db.tokens : t.Hash = Sha256(header[2]) /\ t.Expiry > clock

\* C13: the handler behind IsAuthenticated is invoked only for a request with
\* a bearer token whose hash is a stored, unexpired token hash; any other
\* request is answered 401 and the handler is not invoked.
C13_OnlyAuthenticRequestsServed ==
    [][ProtectedStep =>
          /\ Invoked(db') => Authentic(HeaderOf(db'))
          /\ ~Authentic(HeaderOf(db')) =>
                 (~Invoked(db') /\ last'.code = StatusUnauthorized)]_vars

\* a token that is stored and has expired was presented and refused
C13_Witness ==
    /\ last.op \in ProtectedRoutes
    /\ last.code = StatusUnauthorized
    /\ ~Invoked(db)
    /\ Len(db.calls) = 2
    /\ db.calls[2].call = "FetchUserByToken"
    /\ db.calls[2].err = ErrNoRows
    /\ \E t \in db.tokens : t.Hash = Sha256(HeaderOf(db)[2]) /\ t.Expiry <= clock

(***************************************************************************)
(* The catalog: ProdRepository.FetchProductByName and GetProducts.  A name *)
(* or a keyword is the sequence of its characters.                         *)
(***************************************************************************)
\* limit := 12
PageSize == 12

ErrNegativeOffset == <<"pq: OFFSET must not be negative">>
ErrFetchingProducts == <<"error fetching products">>
ErrFetchingImageUrl == <<"error fetching image url">>

\* the lower case of a character, as ILIKE folds it
ToLower(c) ==
    CASE c = "S" -> "s"
      [] c = "H" -> "h"
      [] c = "O" -> "o"
      [] c = "E" -> "e"
      [] OTHER -> c

\* name ILIKE '%' || keyword || '%'
ILike(name, keyword) ==
    \E i \in 0..(Len(name) - Len(keyword)) :
        \A j \in 1..Len(keyword) : ToLower(name[i + j]) = ToLower(keyword[j])

\* a query without its order by clause: the rows in the order of their ids
Unordered(rows) == SetToSeq(rows)

\* order by created_at
RECURSIVE OrderByCreatedAt(_)
OrderByCreatedAt(rows) ==
    IF rows = {} THEN <<>>
    ELSE LET first == CHOOSE r \in rows : \A o \in rows : r.CreatedAt <= o.CreatedAt
         IN <<first>> \o OrderByCreatedAt(rows \ {first})

\* limit $1 offset $2
LimitOffset(rows, limit, offset) ==
    SubSeq(rows, offset + 1, IF offset + limit < Len(rows) THEN offset + limit
                             ELSE Len(rows))

FetchProductByName(D, keyword, page, fails) ==
    LET arg == <<keyword, page>>
        limit == PageSize
        offset == (page - 1) * limit
        table == {D.products[p] : p \in DOMAIN D.products}
        count == Cardinality(table)
        matching == IF keyword # <<>> THEN {r \in table : ILike(r.Name, keyword)}
                    ELSE table
    IN
    IF "count" \in fails THEN Failed(D, "FetchProductByName", arg)
    ELSE IF "select" \in fails THEN Failed(D, "FetchProductByName", arg)
    ELSE IF offset < 0 THEN Ret(D, "FetchProductByName", arg, <<>>, ErrNegativeOffset)
    ELSE Ret(D, "FetchProductByName", arg,
             <<LimitOffset(OrderByCreatedAt(matching), limit, offset), count>>, Nil)

\* the images of a product; the model keeps no image
FetchImageUrlById(D, id, fail) ==
    IF fail THEN Failed(D, "FetchImageUrlById", id)
    ELSE Ret(D, "FetchImageUrlById", id, <<>>, Nil)

\* the loop over prods: the images of each, or the first error
RECURSIVE FetchImages(_, _, _)
FetchImages(D, prods, fail) ==
    IF prods = <<>> THEN Res(D, <<>>, Nil)
    ELSE LET r == FetchImageUrlById(D, Head(prods).ProductId, fail) IN
         IF r.err # Nil THEN Res(r.db, <<>>, r.err)
         ELSE FetchImages(r.db, Tail(prods), fail)

GetProducts(D, keyword, page, fails) ==
    Return("ProductsUC.GetProducts", <<keyword, page>>,
    (LET r1 == FetchProductByName(D, keyword, page, fails) IN
     IF r1.err # Nil THEN Res(r1.db, <<>>, ErrFetchingProducts)
     ELSE
     LET prods == r1.val[1]
         r2 == FetchImages(r1.db, prods, "FetchImageUrlById" \in fails)
     IN
     IF r2.err # Nil THEN Res(r2.db, <<>>, ErrFetchingImageUrl)
     ELSE Res(r2.db, <<[Success |-> TRUE, ProductCount |-> r1.val[2],
                        ResPerPage |-> 4, FilteredProductsCount |-> Len(prods),
                        Products |-> prods]>>, Nil)))

HandleGetProducts(D, keyword, page, fails) ==
    LET r == GetProducts(D, keyword, page, fails) IN
    IF r.err # Nil THEN Reply(r.db, StatusBadRequest, ErrSomethingWentWrong, <<>>)
    ELSE Reply(r.db, StatusOK, Nil, r.val)

\* the products of the catalog: their number, their names and the order in
\* which they were created
MaxProducts == 13
ProductNames == {<<"S", "h", "o", "e">>, <<"s", "h", "i", "r", "t">>}
CreationOrders == {"oldest first", "newest first"}
\* what the keyword and page query parameters can carry: no keyword, one in
\* another case than the names, one that matches no name; no page, 1 and 2
KeywordInputs == {<<>>, <<"S", "H">>, <<"O", "E">>, <<"x">>}
PageInputs == {0, 1, 2}
GetProductsFaults == {{}, {"count"}, {"select"}, {"FetchImageUrlById"}}

CatalogProduct(id, name, createdAt) ==
    [ProductId |-> id, Name |-> name, CreatedAt |-> createdAt,
     Stock |-> InitStock, Ratings |-> 0, NumOfReviews |-> 0]

InitCatalog ==
    /\ \E n \in 0..MaxProducts, order \in CreationOrders,
          odd \in ProductNames, even \in ProductNames :
          db = [InitDB EXCEPT !.products =
                   [p \in 1..n |->
                       CatalogProduct(p, IF p % 2 = 1 THEN odd ELSE even,
                                      IF order = "oldest first" THEN InitClock + p
                                      ELSE InitClock + n - p)]]
    /\ last = [op |-> "none", id |-> NilUUID, status |-> "", code |-> 0,
               msg |-> Nil, val |-> <<>>]
    /\ clock = InitClock + MaxProducts
    /\ inflight = [w \in Workers |-> Idle]
    /\ visitors = NoVisitors

\* GET /api/v1/product/products
GetProductsRequest ==
    \E keyword \in KeywordInputs, page \in PageInputs, fails \in GetProductsFaults :
        Done("GetProducts", NilUUID, "",
             HandleGetProducts(NewRequest(db), keyword, page, fails))

NextCatalog == GetProductsRequest

SpecCatalog == InitCatalog /\ [][NextCatalog]_vars

\* the page the latest catalog query returned
CatalogPage == last.val[1].Products

\* C14: a catalog query for page 1 with no keyword returns at most 12
\* products, in ascending order of creation time, with the number of all
\* products as the total.
C14_FirstPageOfCatalog ==
    (/\ last.op = "GetProducts"
     /\ last.code = StatusOK
     /\ db.calls[1].arg = <<<<>>, 1>>)
    => /\ Len(CatalogPage) <= 12
       /\ \A i, j \in DOMAIN CatalogPage :
              i < j => CatalogPage[i].CreatedAt < CatalogPage[j].CreatedAt
       /\ \A i \in DOMAIN CatalogPage : CatalogPage[i] \in
              {db.products[p] : p \in DOMAIN db.products}
       /\ last.val[1].ProductCount = Cardinality(DOMAIN db.products)

\* thirteen products, the newest with the lowest id: twelve came back
C14_Witness ==
    /\ last.op = "GetProducts"
    /\ last.code = StatusOK
    /\ db.calls[1].arg = <<<<>>, 1>>
    /\ Cardinality(DOMAIN db.products) = 13
    /\ db.products[1].CreatedAt > db.products[2].CreatedAt
    /\ Len(CatalogPage) = 12
    /\ last.val[1].ProductCount = 13


(***************************************************************************)
(* C15: a request rejected because a required field is missing or          *)
(* malformed is answered with HTTP 422 carrying a field-to-message map,    *)
(* while not-found, persistence and downstream failures are answered with  *)
(* HTTP 400.  Stated for PUT /orders/admin/order/{id}, whose required      *)
(* field is status: a request without it is answered 422 with a non-empty  *)
(* map of field errors, and a request with it that fails is answered 400.  *)
(***************************************************************************)
C15_ValidationIs422 ==
    last.op = "UpdateOrder" =>
        /\ last.status = "" =>
               /\ last.code = StatusUnprocessableEntity
               /\ last.val # <<>>
        /\ (last.status # "" /\ last.code # StatusOK) =>
               last.code = StatusBadRequest

\* the users whose stored token the header carries
BearerOf(D, header) ==
    {u \in D.users : \E t \in D.tokens :
        t.Hash = Sha256(header[2]) /\ t.UserID = u.ID}

\* C16: the administrative endpoints are served only to an authenticated
\* user whose role is admin; the token of a regular user gives no access to
\* them.
C16_AdminRoutesServeAdminsOnly ==
    [][(ProtectedStep /\ last'.op \in AdminRoutes /\ Invoked(db')) =>
          \A u \in BearerOf(db, HeaderOf(db')) : u.Role = "admin"]_vars

\* GET /logout/{token} succeeded for the token
LoggedOut(token) ==
    /\ last.op = "Logout"
    /\ last.code = StatusOK
    /\ \E i \in DOMAIN db.calls :
          /\ db.calls[i].call = "AuthUC.DeleteUserToken"
          /\ db.calls[i].arg = token

\* a request to an endpoint behind IsAuthenticated carried the token as its
\* bearer
Presented(token) ==
    /\ last.op \in ProtectedRoutes
    /\ HeaderOf(db) = BearerHeader(token)

RowsIn(table, orderId) == {r \in table : r.OrderID = orderId}

\* the step fetches, with GET /orders/{id}, the order that the request just
\* before it created
FetchesFreshOrder ==
    /\ last.op = "CreateOrder"
    /\ last.code = StatusOK
    /\ last'.op = "GetSingleOrder"
    /\ last'.code = StatusOK
    /\ last'.id = last.val[1].OrderID

\* C18: a freshly created order, fetched by its id, has status "Processing",
\* the zero delivered timestamp, exactly one item, one shipping record and
\* one payment record.
C18_FreshOrderAsCreated ==
    [][FetchesFreshOrder =>
          LET order == last'.val[1] IN
          /\ order.OrderStatus = "Processing"
          /\ order.DeliveredAt = ZeroTime
          /\ Len(order.OrderItems) = 1
          /\ order.OrderItems[1].OrderID = order.OrderID
          /\ order.ShippingInfo.OrderID = order.OrderID
          /\ order.PaymentInfo.OrderID = order.OrderID
          /\ Cardinality(RowsIn(db'.items, order.OrderID)) = 1
          /\ Cardinality(RowsIn(db'.shippings, order.OrderID)) = 1
          /\ Cardinality(RowsIn(db'.payments, order.OrderID)) = 1]_vars

\* an order that no update has touched was fetched, complete
C18_Witness ==
    /\ last.op = "GetSingleOrder"
    /\ last.code = StatusOK
    /\ last.val[1].OrderID = last.id
    /\ last.val[1].OrderStatus = "Processing"
    /\ last.val[1].DeliveredAt = ZeroTime
    /\ Len(last.val[1].OrderItems) = 1
    /\ db.seq.orders = 1

(***************************************************************************)
(* The rate limiter: a table of token buckets keyed by the request's       *)
(* RemoteAddr, which net/http sets to the host and the port of the         *)
(* connection.                                                             *)
(***************************************************************************)
StatusTooManyRequests == 429
ErrTooManyRequests == <<"Too many requests">>

\* NewRateLimiter(r, b): b tokens at most, r tokens a tick
Burst == 2
Rate == 1

Hosts == {"192.168.1.1", "192.168.1.2"}
Ports == {1234, 1235}
\* r.RemoteAddr: "IP:port"
RemoteAddr(host, port) == <<host, port>>

Min(a, b) == IF a < b THEN a ELSE b

\* rate.NewLimiter(rl.rate, rl.burst): a full bucket
NewLimiter(now) == [tokens |-> Burst, at |-> now]

\* the table with the limiter of ip in it, created when it does not exist
GetLimiter(V, ip, now) ==
    IF ip \in DOMAIN V THEN V
    ELSE [a \in DOMAIN V \cup {ip} |-> IF a = ip THEN NewLimiter(now) ELSE V[a]]

\* the tokens of the bucket at the instant now
Advance(lim, now) == Min(Burst, lim.tokens + Rate * (now - lim.at))

\* limiter.Allow(): takes a token when there is one
Allow(lim, now) ==
    LET tokens == Advance(lim, now) IN
    IF tokens >= 1 THEN [ok |-> TRUE, lim |-> [tokens |-> tokens - 1, at |-> now]]
    ELSE [ok |-> FALSE, lim |-> lim]

\* RateLimiter.Middleware around a handler that answers 200
Middleware(D, V, remoteAddr, now) ==
    LET ip == remoteAddr
        V1 == GetLimiter(V, ip, now)
        a == Allow(V1[ip], now)
        V2 == [V1 EXCEPT ![ip] = a.lim]
        D0 == Call(D, "RateLimiter.Middleware", ip, Nil)
    IN
    IF ~a.ok
    THEN [visitors |-> V2,
          reply |-> Reply(D0, StatusTooManyRequests, ErrTooManyRequests, <<>>)]
    ELSE [visitors |-> V2,
          reply |-> Reply(Call(D0, "next.ServeHTTP", ip, Nil), StatusOK, Nil, <<>>)]

\* a request through the middleware
RateLimitedRequest ==
    \E host \in Hosts, port \in Ports :
        LET m == Middleware(NewRequest(db), visitors, RemoteAddr(host, port), clock)
        IN /\ Answer("RateLimited", NilUUID, "", m.reply)
           /\ visitors' = m.visitors
           /\ UNCHANGED <<clock, inflight>>

NextRateLimiter == Tick \/ RateLimitedRequest

SpecRateLimiter == Init /\ [][NextRateLimiter]_vars

\* the step answers a request that went through the middleware
RateLimitedStep ==
    /\ last'.op = "RateLimited"
    /\ UNCHANGED <<clock, inflight>>

\* the tokens taken so far from the buckets of the addresses in addrs
RECURSIVE Charged(_, _)
Charged(V, addrs) ==
    IF addrs = {} THEN 0
    ELSE LET a == CHOOSE x \in addrs : TRUE IN
         (Burst - V[a].tokens) + Charged(V, addrs \ {a})

\* what the requests of a client host have been charged
ChargedToHost(V, host) == Charged(V, {a \in DOMAIN V : a[1] = host})

\* C19: the requests of one client address are charged to one bucket: with
\* no refill in between (the clock has not moved), the first Burst requests
\* of a client reach the next handler and every further one is answered 429
\* without reaching it.
C19_OneBucketPerClient ==
    [][(RateLimitedStep /\ clock = InitClock) =>
          LET host == db'.calls[1].arg[1] IN
          /\ ChargedToHost(visitors, host) < Burst =>
                 (last'.code = StatusOK /\ Invoked(db'))
          /\ ChargedToHost(visitors, host) >= Burst =>
                 (last'.code = StatusTooManyRequests /\ ~Invoked(db'))]_vars

(***************************************************************************)
(* CreateProductReview served by concurrent workers: the use case reads    *)
(* the product and its reviews, inserts the review and updates the product *)
(* in separate statements, with no transaction and no lock.                *)
(***************************************************************************)
ReviewReadFaults == {{}, {"FetchProductById"}, {"FetchReviewById"}}
ReviewInsertFaults == {{}, {"InsertReview"}}
ReviewUpdateFaults == {{}, {"UpdateProduct"}}

\* the reviews that workers are about to insert
PendingReviews == Cardinality({w \in Workers : inflight[w].pc = "InsertReview"})

\* the answer of the handler to what the use case returned
ReviewReply(D, productId, err) ==
    LET D1 == Call(D, "ProductsUC.CreateProductReview", productId, err) IN
    IF err # Nil THEN Reply(D1, StatusBadRequest, ErrSomethingWentWrong, <<>>)
    ELSE Reply(D1, StatusOK, Nil, <<>>)

\* FetchProductById, FetchReviewById, reviews = append(reviews, review)
ReviewRead(w) ==
    /\ inflight[w] = Idle
    /\ db.seq.reviews + PendingReviews < MaxReviews
    /\ \E rating \in RatingInputs, productId \in ProductIds,
          fails \in ReviewReadFaults :
          LET review == Review(NilUUID, rating, productId)
              r1 == FetchProductById(NewRequest(db), productId,
                                     "FetchProductById" \in fails)
              r2 == FetchReviewById(r1.db, productId, "FetchReviewById" \in fails)
          IN
          IF r1.err # Nil
          THEN /\ Answer("CreateProductReview", productId, "",
                         ReviewReply(r1.db, productId, ErrFetchingProduct))
               /\ UNCHANGED <<clock, inflight, visitors>>
          ELSE IF r2.err # Nil
          THEN /\ Answer("CreateProductReview", productId, "",
                         ReviewReply(r2.db, productId, ErrFetchingReviews))
               /\ UNCHANGED <<clock, inflight, visitors>>
          ELSE /\ inflight' = [inflight EXCEPT ![w] =
                                  [pc |-> "InsertReview", review |-> review,
                                   product |-> r1.val[1],
                                   reviews |-> Append(r2.val, review),
                                   calls |-> r2.db.calls]]
               /\ UNCHANGED <<db, last, clock, visitors>>

\* InsertReview
ReviewInsert(w) ==
    /\ inflight[w].pc = "InsertReview"
    /\ \E fails \in ReviewInsertFaults :
          LET productId == inflight[w].review.ProductId
              r3 == InsertReview([db EXCEPT !.calls = inflight[w].calls],
                                 inflight[w].review, "InsertReview" \in fails)
          IN
          IF r3.err # Nil
          THEN /\ Answer("CreateProductReview", productId, "",
                         ReviewReply(r3.db, productId, ErrInsertingReviews))
               /\ inflight' = [inflight EXCEPT ![w] = Idle]
               /\ UNCHANGED <<clock, visitors>>
          ELSE /\ db' = [r3.db EXCEPT !.calls = db.calls]
               /\ inflight' = [inflight EXCEPT ![w].pc = "UpdateProduct",
                                               ![w].calls = r3.db.calls]
               /\ UNCHANGED <<last, clock, visitors>>

\* the product with the aggregates computed from the reviews the call holds
Recomputed(product, reviews) ==
    [product EXCEPT !.NumOfReviews = Len(reviews), !.Ratings = MeanRating(reviews)]

\* UpdateProduct and the response
ReviewUpdate(w) ==
    /\ inflight[w].pc = "UpdateProduct"
    /\ \E fails \in ReviewUpdateFaults :
          LET productId == inflight[w].review.ProductId
              r4 == UpdateProduct([db EXCEPT !.calls = inflight[w].calls], productId,
                                  Recomputed(inflight[w].product, inflight[w].reviews),
                                  "UpdateProduct" \in fails)
          IN Answer("CreateProductReview", productId, "",
                    ReviewReply(r4.db, productId,
                                IF r4.err # Nil THEN ErrUpdatingProduct ELSE Nil))
    /\ inflight' = [inflight EXCEPT ![w] = Idle]
    /\ UNCHANGED <<clock, visitors>>

NextConcurrentReviews ==
    \/ \E w \in Workers : ReviewRead(w)
    \/ \E w \in Workers : ReviewInsert(w)
    \/ \E w \in Workers : ReviewUpdate(w)

SpecConcurrentReviews == Init /\ [][NextConcurrentReviews]_vars

\* the step in which worker w's CreateProductReview returns nil
ReviewCompletes(w) ==
    /\ inflight[w].pc = "UpdateProduct"
    /\ inflight'[w] = Idle
    /\ last'.code = StatusOK

\* another call stored a review of the product after worker w read them
ReadIsStale(w) ==
    Cardinality(ReviewsOf(db, inflight[w].review.ProductId))
        > Len(inflight[w].reviews)

\* C20: two concurrent CreateProductReview calls on one product can lose an
\* update.  Whenever a call completes after another call stored a review
\* that it had not read, every review is stored, but num_of_reviews and
\* rating are those of the reviews the completing call read and its own:
\* the other review is not reflected.
C20_ConcurrentReviewsLoseUpdate ==
    [][\A w \in Workers :
          (ReviewCompletes(w) /\ ReadIsStale(w)) =>
              LET productId == inflight[w].review.ProductId
                  product == db'.products[productId]
              IN /\ ReviewsOf(db', productId) = ReviewsOf(db, productId)
                 /\ product.NumOfReviews = Len(inflight[w].reviews)
                 /\ product.Ratings = MeanRating(inflight[w].reviews)
                 /\ product.NumOfReviews
                        < Cardinality(ReviewsOf(db', productId))]_vars

\* both calls have returned: two reviews of the product are stored, rated 5
\* and 0, and the product counts one review and carries its rating alone
C20_Witness ==
    /\ \A w \in Workers : inflight[w] = Idle
    /\ last.op = "CreateProductReview"
    /\ last.code = StatusOK
    /\ \E productId \in ProductIds :
          /\ Cardinality(ReviewsOf(db, productId)) = 2
          /\ {r.Rating : r \in ReviewsOf(db, productId)} = {0, 5}
          /\ db.products[productId].NumOfReviews = 1
          /\ db.products[productId].Ratings = 5

(***************************************************************************)
(* The admin view of all orders: four bulk queries without an order by     *)
(* clause, zipped by position.  The order of the rows of such a query is   *)
(* the database's choice.                                                  *)
(***************************************************************************)
\* the orders a behaviour of the admin view creates
MaxListed == 2

PanicIndexOutOfRange == <<"panic: index out of range">>

Reverse(s) == [i \in 1..Len(s) |-> s[Len(s) + 1 - i]]

\* the orders in which a query without order by returns the rows: one order
\* of the rows and its reverse (every order, for a table of two rows)
RowOrders(rows) == {SetToSeq(rows), Reverse(SetToSeq(rows))}

\* the order ids of the rows, in the order of the rows
OrderIdsOf(rows) == [i \in 1..Len(rows) |-> rows[i].OrderID]

\* a bulk query: the rows in the order the database chose
FetchAll(D, name, rows, fail) ==
    IF fail THEN Failed(D, name, <<>>)
    ELSE Ret(D, name, OrderIdsOf(rows), rows, Nil)

\* a zip that attaches the first row to every order
FirstToAll(ords, payments) ==
    IF payments = <<>> THEN ords
    ELSE [i \in 1..Len(ords) |-> [ords[i] EXCEPT !.PaymentInfo = payments[1]]]

\* ords[i].ShippingInfo = *shipping
ZipShippings(ords, shippings) ==
    [i \in 1..Len(ords) |->
        IF i <= Len(shippings) THEN [ords[i] EXCEPT !.ShippingInfo = shippings[i]]
        ELSE ords[i]]

\* ords[i].OrderItems = append(ords[i].OrderItems, item)
ZipItems(ords, items) ==
    [i \in 1..Len(ords) |->
        IF i <= Len(items) THEN [ords[i] EXCEPT !.OrderItems = Append(@, items[i])]
        ELSE ords[i]]

\* ords[i].PaymentInfo = *payment
ZipPayments(ords, payments) ==
    [i \in 1..Len(ords) |->
        IF i <= Len(payments) THEN [ords[i] EXCEPT !.PaymentInfo = payments[i]]
        ELSE ords[i]]

\* rows: what the four queries return, each in its own order
GetAllOrders(D, rows, fails) ==
    Return("OrderUC.GetAllOrders", NilUUID,
    (LET r1 == FetchAll(D, "FetchAllOrders", rows.orders, "FetchAllOrders" \in fails) IN
    IF r1.err # Nil THEN Res(r1.db, <<>>, r1.err)
    ELSE
    LET ords == [i \in 1..Len(r1.val) |-> OrderOfRow(r1.val[i])]
        r2 == FetchAll(r1.db, "FetchAllShipping", rows.shippings,
                       "FetchAllShipping" \in fails)
    IN
    IF r2.err # Nil THEN Res(r2.db, <<>>, r2.err)
    ELSE IF Len(r2.val) > Len(ords) THEN Res(r2.db, <<>>, PanicIndexOutOfRange)
    ELSE
    LET r3 == FetchAll(r2.db, "FetchAllItems", rows.items, "FetchAllItems" \in fails) IN
    IF r3.err # Nil THEN Res(r3.db, <<>>, r3.err)
    ELSE IF Len(r3.val) > Len(ords) THEN Res(r3.db, <<>>, PanicIndexOutOfRange)
    ELSE
    LET r4 == FetchAll(r3.db, "FetchAllPayment", rows.payments,
                       "FetchAllPayment" \in fails)
    IN
    IF r4.err # Nil THEN Res(r4.db, <<>>, r4.err)
    ELSE IF Len(r4.val) > Len(ords) THEN Res(r4.db, <<>>, PanicIndexOutOfRange)
    ELSE Res(r4.db,
             ZipPayments(ZipItems(ZipShippings(ords, r2.val), r3.val), r4.val),
             Nil)))

HandleGetAllOrders(D, rows, fails) ==
    LET r == GetAllOrders(D, rows, fails) IN
    IF r.err = PanicIndexOutOfRange
    THEN Reply(r.db, StatusInternalServerError, r.err, <<>>)
    ELSE IF r.err # Nil THEN Reply(r.db, StatusBadRequest, r.err, <<>>)
    ELSE Reply(r.db, StatusOK, Nil, <<[Success |-> TRUE, Orders |-> r.val]>>)

\* the creations the admin view is checked with: complete orders, and orders
\* that a failed insert and a failed compensating delete left partial
ListedOrderFaults ==
    {{}, {"InsertShipping", "DeleteOrderById"}, {"InsertPayment", "DeleteOrderById"}}

GetAllOrdersFaults ==
    {{}} \cup {{c} : c \in {"FetchAllOrders", "FetchAllShipping", "FetchAllItems",
                            "FetchAllPayment"}}

\* POST /api/v1/orders/new
ListedOrderRequest ==
    /\ db.seq.orders < MaxListed
    /\ \E productId \in ProductIds, paymentRef \in PaymentRefs,
          fails \in ListedOrderFaults :
          Done("CreateOrder", NilUUID, "",
               HandleCreateOrder(NewRequest(db), 1, productId, paymentRef, fails))

\* GET /api/v1/orders/admin/orders
GetAllOrdersRequest ==
    \E orders \in RowOrders(db.orders), shippings \in RowOrders(db.shippings),
       items \in RowOrders(db.items), payments \in RowOrders(db.payments),
       fails \in GetAllOrdersFaults :
        Done("GetAllOrders", NilUUID, "",
             HandleGetAllOrders(NewRequest(db),
                                [orders |-> orders, shippings |-> shippings,
                                 items |-> items, payments |-> payments],
                                fails))

NextAllOrders == ListedOrderRequest \/ GetAllOrdersRequest

SpecAllOrders == Init /\ [][NextAllOrders]_vars

\* every order has exactly one shipping row and one payment row
OneShippingOnePayment ==
    \A o \in db.orders :
        /\ Cardinality(RowsIn(db.shippings, o.OrderID)) = 1
        /\ Cardinality(RowsIn(db.payments, o.OrderID)) = 1

\* the order of the orders in a sequence of order ids: each id once, at its
\* first place
RECURSIVE OrderOfOrders(_)
OrderOfOrders(ids) ==
    IF ids = <<>> THEN <<>>
    ELSE LET rest == OrderOfOrders(Tail(ids)) IN
         <<Head(ids)>> \o SelectSeq(rest, LAMBDA x : x # Head(ids))

\* the four bulk queries of the latest request returned their rows in the
\* same order of orders
SameOrderOfOrders ==
    /\ Len(db.calls) = 5
    /\ \A i \in 1..4 : db.calls[i].err = Nil
    /\ \A i \in 2..4 : OrderOfOrders(db.calls[i].arg) = db.calls[1].arg

\* C21: when every order has exactly one shipping row and one payment row
\* and the four bulk queries return their rows in the same order of orders,
\* GetAllOrders attaches to each order its own shipping, items and payment:
\* the order reference of every attached dependent is the id of the order.
C21_AllOrdersAttachOwnDependents ==
    (/\ last.op = "GetAllOrders"
     /\ last.code = StatusOK
     /\ OneShippingOnePayment
     /\ SameOrderOfOrders) =>
        \A i \in 1..Len(last.val[1].Orders) :
            LET order == last.val[1].Orders[i] IN
            /\ order.ShippingInfo.OrderID = order.OrderID
            /\ order.PaymentInfo.OrderID = order.OrderID
            /\ \A k \in 1..Len(order.OrderItems) :
                  order.OrderItems[k].OrderID = order.OrderID
            /\ RowsIn(db.items, order.OrderID)
                  = {order.OrderItems[k] : k \in 1..Len(order.OrderItems)}

\* two complete orders were listed, the newer first, each with its own rows
C21_Witness ==
    /\ last.op = "GetAllOrders"
    /\ last.code = StatusOK
    /\ OneShippingOnePayment
    /\ SameOrderOfOrders
    /\ db.calls[1].arg = <<2, 1>>
    /\ last.val[1].Orders[1].ShippingInfo.OrderID = 2
    /\ last.val[1].Orders[2].PaymentInfo.OrderID = 1



(***************************************************************************)
(* OrderUC.CreateOrder statement by statement.  The four inserts are four  *)
(* statements on the connection pool, outside any transaction, so each is  *)
(* committed when it returns and the process can stop between two of them. *)
(***************************************************************************)
\* the inserts that follow InsertOrder, in the order of the code
NextInsert(pc) ==
    CASE pc = "InsertShipping" -> "InsertItem"
      [] pc = "InsertItem" -> "InsertPayment"
      [] OTHER -> "idle"

DependentInserts == {"InsertShipping", "InsertItem", "InsertPayment"}

\* the answer of the handler to what CreateOrder returned
CreateOrderReply(D, val, err) ==
    LET D1 == Call(D, "OrderUC.CreateOrder", NilUUID, err) IN
    IF err # Nil THEN Reply(D1, StatusBadRequest, err, <<>>)
    ELSE IF val = <<>>
    THEN Reply(D1, StatusInternalServerError, PanicNilDereference, <<>>)
    ELSE Reply(D1, StatusOK, Nil, val)

\* POST /api/v1/orders/new: the handler up to the return of InsertOrder
CreateOrderBegin(w) ==
    /\ inflight[w] = Idle
    /\ db.seq.orders < MaxListed
    /\ \E productId \in ProductIds, paymentRef \in PaymentRefs,
          fails \in {{}, {"InsertOrder"}} :
          LET ord == NewOrder(1, productId, paymentRef)
              r1 == InsertOrder(NewRequest(db), ord, "InsertOrder" \in fails)
          IN
          IF r1.err # Nil
          THEN /\ Answer("CreateOrder", NilUUID, "",
                         CreateOrderReply(r1.db, <<>>, r1.err))
               /\ UNCHANGED <<clock, inflight, visitors>>
          ELSE /\ db' = [r1.db EXCEPT !.calls = db.calls]
               /\ inflight' = [inflight EXCEPT ![w] =
                                  [pc |-> "InsertShipping", ord |-> ord,
                                   order |-> r1.val[1], calls |-> r1.db.calls]]
               /\ UNCHANGED <<last, clock, visitors>>

\* InsertShipping, InsertItem or InsertPayment, with the compensating delete
\* when it fails and the response when it was the last
CreateOrderInsert(w) ==
    /\ inflight[w].pc \in DependentInserts
    /\ \E fails \in {{}, {inflight[w].pc}, {inflight[w].pc, "DeleteOrderById"}} :
          LET f == inflight[w]
              D == [db EXCEPT !.calls = f.calls]
              orderId == f.order.OrderID
              item0 == [f.ord.OrderItems[1] EXCEPT !.OrderID = orderId]
              r == CASE f.pc = "InsertShipping" ->
                          InsertShipping(D, [f.ord.ShippingInfo EXCEPT !.OrderID = orderId],
                                         f.pc \in fails)
                     [] f.pc = "InsertItem" -> InsertItem(D, item0, f.pc \in fails)
                     [] OTHER ->
                          InsertPayment(D, [f.ord.PaymentInfo EXCEPT !.OrderID = orderId],
                                        f.pc \in fails)
          IN
          IF r.err # Nil
          THEN LET d == DeleteOrderById(r.db, orderId, "DeleteOrderById" \in fails)
               IN /\ Answer("CreateOrder", NilUUID, "",
                            CreateOrderReply(d.db, <<>>, d.err))
                  /\ inflight' = [inflight EXCEPT ![w] = Idle]
                  /\ UNCHANGED <<clock, visitors>>
          ELSE
          LET order == CASE f.pc = "InsertShipping" ->
                              [f.order EXCEPT !.ShippingInfo = r.val[1]]
                         [] f.pc = "InsertItem" ->
                              [f.order EXCEPT !.OrderItems = <<item0, r.val[1]>>]
                         [] OTHER -> [f.order EXCEPT !.PaymentInfo = r.val[1]]
          IN
          IF f.pc = "InsertPayment"
          THEN /\ Answer("CreateOrder", NilUUID, "",
                         CreateOrderReply(r.db, <<order>>, Nil))
               /\ inflight' = [inflight EXCEPT ![w] = Idle]
               /\ UNCHANGED <<clock, visitors>>
          ELSE /\ db' = [r.db EXCEPT !.calls = db.calls]
               /\ inflight' = [inflight EXCEPT ![w].pc = NextInsert(f.pc),
                                               ![w].order = order,
                                               ![w].calls = r.db.calls]
               /\ UNCHANGED <<last, clock, visitors>>

\* the process stops: the requests in flight are gone with their goroutines,
\* no response is written, the database keeps what was committed
Crash ==
    /\ \E w \in Workers : inflight[w] # Idle
    /\ inflight' = [w \in Workers |-> Idle]
    /\ UNCHANGED <<db, last, clock, visitors>>

NextCreateOrder ==
    \/ \E w \in Workers : CreateOrderBegin(w)
    \/ \E w \in Workers : CreateOrderInsert(w)
    \/ Crash

SpecCreateOrder == Init /\ [][NextCreateOrder]_vars

\* the header of the order is stored
HasHeader(D, orderId) == \E o \in D.orders : o.OrderID = orderId

\* the order has its shipping row, its item row and its payment row
HasAllDependents(D, orderId) ==
    /\ \E s \in D.shippings : s.OrderID = orderId
    /\ \E i \in D.items : i.OrderID = orderId
    /\ \E p \in D.payments : p.OrderID = orderId

PartiallyCreated(D, orderId) ==
    HasHeader(D, orderId) /\ ~HasAllDependents(D, orderId)

\* the step in which the process stops while worker w is between two inserts
CrashBetweenInserts(w) ==
    /\ inflight[w].pc \in DependentInserts
    /\ \A v \in Workers : inflight'[v] = Idle
    /\ db' = db

\* C22: order creation is not atomic: when the process stops between two of
\* the four inserts of CreateOrder, the store holds the header of the order
\* without its full set of shipping, item and payment rows.
C22_CrashLeavesPartialOrder ==
    [][\A w \in Workers :
          CrashBetweenInserts(w) =>
              PartiallyCreated(db', inflight[w].order.OrderID)]_vars

\* no request was ever answered and none is in flight, yet an order is stored
\* with its shipping row and without its payment row: the process stopped
\* after InsertShipping
C22_Witness ==
    /\ last.op = "none"
    /\ \A w \in Workers : inflight[w] = Idle
    /\ \E o \in db.orders :
          /\ \E s \in db.shippings : s.OrderID = o.OrderID
          /\ PartiallyCreated(db, o.OrderID)


(***************************************************************************)
(* The stock over the status transitions of an order.                      *)
(***************************************************************************)
\* what the transitions of the orders have taken from the stock of a product
TakenFromStock(productId) == InitStock - db.products[productId].Stock

\* C23: over any sequence of status transitions applied to the same order,
\* the stock of each item's product is reduced by that item's quantity at
\* most once in total (SpecOrders stores one order, of one item, so what was
\* taken from the stock of its product was taken by its transitions).
C23_StockReducedAtMostOnce ==
    \A i \in db.items : TakenFromStock(i.ProductID) <= i.Quantity


\* the step that answers a status transition with an error
UpdateOrderRefused == last'.op = "UpdateOrder" /\ last'.code # StatusOK

\* C24: a status transition answered with an error leaves the stored status
\* and delivered timestamp of the order and the stock of every product as
\* they were before the request.
C24_RefusedTransitionChangesNothing ==
    [][UpdateOrderRefused
       => /\ db'.orders = db.orders
          /\ \A p \in ProductIds :
                db'.products[p].Stock = db.products[p].Stock]_vars


(***************************************************************************)
(* OrderHandlers.UpdateOrder statement by statement.  The handler reads    *)
(* the order, checks its status, updates the stocks and writes the order   *)
(* in separate statements, with no transaction and no lock, while other    *)
(* requests are served.                                                    *)
(***************************************************************************)
\* PUT /api/v1/orders/admin/order/{id}: validation, GetSingleOrder and the
\* check of the status read
TransitionRead(w) ==
    /\ inflight[w] = Idle
    /\ \A p \in ProductIds : db.products[p].Stock > -MaxOversell
    /\ \E id \in 1..MaxOrders, status \in StatusInputs,
          fails \in GetSingleOrderFaults :
          LET g == GetSingleOrder(NewRequest(db), id, fails) IN
          IF status = ""
          THEN Done("UpdateOrder", id, status,
                    Reply(NewRequest(db), StatusBadRequest, ErrFormsMustBeFilled, <<>>))
          ELSE IF g.err # Nil
          THEN Done("UpdateOrder", id, status,
                    Reply(g.db, StatusBadRequest, g.err, <<>>))
          ELSE IF AlreadyDelivered(g.val[1])
          THEN Done("UpdateOrder", id, status,
                    Reply(g.db, StatusBadRequest, ErrAlreadyDelivered, <<>>))
          ELSE /\ inflight' = [inflight EXCEPT ![w] =
                                  [pc |-> "UpdateStock", order |-> g.val[1],
                                   status |-> status, calls |-> g.db.calls]]
               /\ UNCHANGED <<db, last, clock, visitors>>

\* the loop over the items of the order read: UpdateStock
TransitionStock(w) ==
    /\ inflight[w].pc = "UpdateStock"
    /\ \E fails \in {{}, {"UpdateStock"}} :
          LET f == inflight[w]
              s == UpdateStocks([db EXCEPT !.calls = f.calls], f.order.OrderItems, fails)
          IN
          IF s.err # Nil
          THEN /\ Answer("UpdateOrder", f.order.OrderID, f.status,
                         Reply(s.db, StatusBadRequest, s.err, <<>>))
               /\ inflight' = [inflight EXCEPT ![w] = Idle]
               /\ UNCHANGED <<clock, visitors>>
          ELSE /\ db' = [s.db EXCEPT !.calls = db.calls]
               /\ inflight' = [inflight EXCEPT ![w].pc = "UpdateOrder",
                                               ![w].calls = s.db.calls]
               /\ UNCHANGED <<last, clock, visitors>>

\* the status and the delivered timestamp are set on the order read, the
\* order is written and the request is answered
TransitionWrite(w) ==
    /\ inflight[w].pc = "UpdateOrder"
    /\ \E now \in Times, fails \in {{}, {"UpdateOrder"}} :
          LET f == inflight[w]
              order == [f.order EXCEPT !.OrderStatus = f.status,
                                       !.DeliveredAt = DeliveredAtFor(f.status, now)]
              u == UCUpdateOrder([db EXCEPT !.calls = f.calls], order, fails)
          IN Answer("UpdateOrder", f.order.OrderID, f.status,
                    IF u.err # Nil THEN Reply(u.db, StatusBadRequest, u.err, <<>>)
                    ELSE Reply(u.db, StatusOK, Nil, <<>>))
    /\ inflight' = [inflight EXCEPT ![w] = Idle]
    /\ UNCHANGED <<clock, visitors>>

NextConcurrentTransitions ==
    \/ CreateOrderRequest
    \/ \E w \in Workers : TransitionRead(w)
    \/ \E w \in Workers : TransitionStock(w)
    \/ \E w \in Workers : TransitionWrite(w)

SpecConcurrentTransitions == Init /\ [][NextConcurrentTransitions]_vars

\* C25: with two concurrent status transitions on the same order, once the
\* status "Delivered" is stored no later write replaces it with another
\* status or resets the delivered timestamp to zero.
C25_DeliveredIsFinal ==
    [][\A o \in db.orders :
          o.OrderStatus = "Delivered"
              => \E n \in db'.orders :
                    /\ n.OrderID = o.OrderID
                    /\ n.OrderStatus = "Delivered"
                    /\ n.DeliveredAt # ZeroTime]_vars


(***************************************************************************)
(* Reviews created while orders are transitioned: both write the row of    *)
(* the product, UpdateStock its stock column, UpdateProduct every column.  *)
(***************************************************************************)
\* the workers that serve the review requests: one review at a time, while
\* the transitions are served by others
Reviewers == {CHOOSE w \in Workers : TRUE}

NextStockAndReviews ==
    \/ CreateOrderRequest
    \/ UpdateOrderRequest
    \/ \E w \in Reviewers : ReviewRead(w)
    \/ \E w \in Reviewers : ReviewInsert(w)
    \/ \E w \in Reviewers : ReviewUpdate(w)

SpecStockAndReviews == Init /\ [][NextStockAndReviews]_vars

\* C26: when a review is created while a status transition decrements the
\* stock of the product, the decrement is never lost: no step gives back to
\* the stock what a transition took from it.
C26_StockDecrementNeverLost ==
    [][\A p \in ProductIds :
          db'.products[p].Stock <= db.products[p].Stock]_vars


\* no InsertToken is between its delete and its insert
InsertTokensCompleted == \A w \in Workers : inflight[w].pc # "InsertToken"

\* C27: two concurrent InsertToken calls for the same user leave one token
\* stored for that user once both have completed (none after a logout).
C27_OneTokenOnceCompleted ==
    InsertTokensCompleted
        => \A u \in UserIds : Cardinality(TokensOf(db, u)) <= 1


\* the step in which CreateProductReview returns an error
CreateReviewFails == last'.op = "CreateProductReview" /\ last'.code # StatusOK

\* C28: if CreateProductReview returns an error, no review row has been
\* added, so the stored reviews and the rating and review count of the
\* product still agree with each other as before the call.
C28_FailedReviewAddsNoRow ==
    [][CreateReviewFails => db'.reviews = db.reviews]_vars


(***************************************************************************)
(* The password endpoints: POST /password/forgot, PUT /password/reset/     *)
(* {token} and, behind IsAuthenticated, PUT /password/update.              *)
(***************************************************************************)
\* 60*time.Minute, in ticks of the clock
ResetTokenTTL == 1

ErrBadLink == <<"bad link">>
ErrSendingMail == <<"error sending mail">>
ErrPasswordsMismatch == <<"passwors mismatch">>
ErrResetUnsuccessful == <<"password reset unsuccessful, try again later">>

\* select * from users where user_id = $1
FetchUserById(D, id, fail) ==
    LET rows == {u \in D.users : u.ID = id} IN
    IF fail THEN Failed(D, "FetchUserById", id)
    ELSE IF rows = {} THEN Ret(D, "FetchUserById", id, <<>>, ErrNoRows)
    ELSE Ret(D, "FetchUserById", id, <<CHOOSE u \in rows : TRUE>>, Nil)

\* update users set name, email, password, role where user_id = $5
UpdateUser(D, u, fail) ==
    IF fail THEN Failed(D, "UpdateUser", u.ID)
    ELSE Ret([D EXCEPT !.users =
                 {IF x.ID = u.ID
                  THEN [x EXCEPT !.Email = u.Email, !.Password = u.Password,
                                 !.Role = u.Role]
                  ELSE x : x \in @}],
             "UpdateUser", u.ID, <<>>, Nil)

\* InsertToken called by a request served in one step: the delete, then the
\* insert
InsertToken(D, t, userID, fails) ==
    LET r1 == InsertTokenDelete(D, userID, "InsertToken.delete" \in fails) IN
    IF r1.err # Nil
    THEN Res(Call(r1.db, "InsertToken", userID, r1.err), <<>>, r1.err)
    ELSE LET r2 == InsertTokenInsert(r1.db, t, userID, "InsertToken.insert" \in fails)
         IN Res(Call(r2.db, "InsertToken", userID, r2.err), <<>>, r2.err)

\* a.mail.SendMail: the mail with the link, which ends in the plain text of
\* the token, leaves or the provider refuses it
SendMail(D, email, link, fail) ==
    IF fail THEN Ret(D, "SendMail", link, <<>>, ErrSendingMail)
    ELSE Ret(D, "SendMail", link, <<email>>, Nil)

SendPasswordResetEmail(D, email, now, fails) ==
    Return("AuthUC.SendPasswordResetEmail", email,
    (IF email = "" THEN Res(D, <<>>, <<"user must provide an email">>)
     ELSE
     LET r1 == FetchUserByEmail(D, email, "FetchUserByEmail" \in fails) IN
     IF r1.err # Nil THEN Res(r1.db, <<>>, r1.err)
     ELSE
     LET user == r1.val[1]
         r2 == GenerateToken(r1.db, user.ID, ResetTokenTTL, now)
         t == r2.val[1]
         r3 == SendMail(r2.db, email, t.PlainText, "SendMail" \in fails)
     IN
     IF r3.err # Nil THEN Res(r3.db, <<>>, r3.err)
     ELSE
     LET r4 == InsertToken(r3.db, t, user.ID, fails) IN
     IF r4.err # Nil THEN Res(r4.db, <<>>, r4.err)
     ELSE Res(r4.db, <<[Success |-> TRUE, Message |-> <<"Email sent to", email>>]>>,
              Nil)))

\* the new token is generated and saved, then the password is written
SavePassword(D, user, password, now, fails) ==
    LET r1 == GenerateToken(D, user.ID, TokenTTL, now)
        t == r1.val[1]
        r2 == InsertToken(r1.db, t, user.ID, fails)
    IN
    IF r2.err # Nil THEN Res(r2.db, <<>>, r2.err)
    ELSE
    LET r3 == UpdateUser(r2.db, [user EXCEPT !.Password = Bcrypt(password)],
                         "UpdateUser" \in fails)
    IN
    IF r3.err # Nil THEN Res(r3.db, <<>>, r3.err)
    ELSE Res(r3.db, <<[Success |-> TRUE, Token |-> t.PlainText, User |-> user.ID]>>,
             Nil)

ResetPassword(D, newToken, password, now, fails) ==
    Return("AuthUC.ResetPassword", newToken,
    (IF newToken[2] = 0 THEN Res(D, <<>>, ErrBadLink)
     ELSE
     LET r1 == FetchUserByToken(D, newToken, now, "FetchUserByToken" \in fails) IN
     IF r1.err # Nil THEN Res(r1.db, <<>>, r1.err)
     ELSE SavePassword(r1.db, r1.val[1], password, now, fails)))

UpdatePassword(D, userId, oldPassword, password, now, fails) ==
    Return("AuthUC.UpdatePassword", userId,
    (LET r1 == FetchUserById(D, userId, "FetchUserById" \in fails) IN
     IF r1.err # Nil THEN Res(r1.db, <<>>, r1.err)
     ELSE IF r1.val[1].Password # Bcrypt(oldPassword)
     THEN Res(r1.db, <<>>, ErrComparingPassword)
     ELSE SavePassword(r1.db, r1.val[1], password, now, fails)))

HandleSendPasswordResetEmail(D, email, now, fails) ==
    LET errors == Check(email # "", "email", "user email must be provided")
        r == SendPasswordResetEmail(D, email, now, fails)
    IN
    IF errors # {} THEN FailedValidation(D, errors)
    ELSE IF r.err # Nil THEN Reply(r.db, StatusBadRequest, r.err, <<>>)
    ELSE Reply(r.db, StatusOK, Nil, r.val)

HandleResetPassword(D, t, password, confirm, now, fails) ==
    LET errors == Check(password.len > 0, "password", "password must be provided")
                    \cup Check(confirm.len > 0, "confirmPassword",
                               "confirm password must be provided")
        r == ResetPassword(D, t, password, now, fails)
    IN
    IF errors # {} THEN FailedValidation(D, errors)
    ELSE IF password # confirm
    THEN Reply(D, StatusBadRequest, ErrPasswordsMismatch, <<>>)
    ELSE IF r.err # Nil THEN Reply(r.db, StatusBadRequest, ErrResetUnsuccessful, <<>>)
    ELSE Reply(r.db, StatusOK, Nil, r.val)

\* the handler behind IsAuthenticated, the user of the token in the context
HandleUpdatePassword(D, header, oldPassword, password, now, fails) ==
    LET a == IsAuthenticated(D, header, now, "FetchUserByToken" \in fails)
        errors == Check(password.len > 0, "password", "password must be provided")
                    \cup Check(oldPassword.len > 0, "oldPassword",
                               "old password must be provided")
        D0 == Call(a.db, "next.ServeHTTP", "UpdatePassword", Nil)
        r == UpdatePassword(D0, a.val[1].ID, oldPassword, password, now, fails)
    IN
    IF a.err # Nil THEN Reply(a.db, StatusUnauthorized, ErrInvalidCredentials, <<>>)
    ELSE IF errors # {} THEN FailedValidation(D0, errors)
    ELSE IF r.err # Nil THEN Reply(r.db, StatusBadRequest, r.err, <<>>)
    ELSE Reply(r.db, StatusOK, Nil, r.val)

\* the passwords of the forms: an empty field and a new password
NewPasswordInputs == {Password("", 0), Password("new-password", 12)}
\* the old passwords of the forms
OldPasswordInputs == {Password("", 0), Password("user-password", 13)}

SavePasswordFaults == {{"InsertToken.delete"}, {"InsertToken.insert"}, {"UpdateUser"}}
ForgotFaults ==
    {{}, {"FetchUserByEmail"}, {"SendMail"}, {"InsertToken.delete"},
     {"InsertToken.insert"}}
ResetFaults == {{}, {"FetchUserByToken"}} \cup SavePasswordFaults
UpdatePasswordFaults ==
    {{}, {"FetchUserByToken"}, {"FetchUserById"}} \cup SavePasswordFaults

\* POST /api/v1/auth/password/forgot
SendPasswordResetEmailRequest ==
    /\ db.seq.tokens < MaxTokens
    /\ \E email \in EmailInputs, fails \in ForgotFaults :
          Done("SendPasswordResetEmail", NilUUID, "",
               HandleSendPasswordResetEmail(NewRequest(db), email, clock, fails))

\* PUT /api/v1/auth/password/reset/{token}
ResetPasswordRequest ==
    /\ db.seq.tokens < MaxTokens
    /\ \E t \in TokenInputs, password \in NewPasswordInputs,
          confirm \in NewPasswordInputs, fails \in ResetFaults :
          Done("ResetPassword", NilUUID, "",
               HandleResetPassword(NewRequest(db), t, password, confirm, clock, fails))

\* PUT /api/v1/auth/password/update
UpdatePasswordRequest ==
    /\ db.seq.tokens < MaxTokens
    /\ \E header \in Headers, oldPassword \in OldPasswordInputs,
          password \in NewPasswordInputs, fails \in UpdatePasswordFaults :
          Done("UpdatePassword", NilUUID, "",
               HandleUpdatePassword(NewRequest(db), header, oldPassword, password,
                                    clock, fails))

NextPasswords ==
    \/ SendPasswordResetEmailRequest
    \/ ResetPasswordRequest
    \/ UpdatePasswordRequest
    \/ \E w \in Workers : LoginRequest(w)
    \/ \E w \in Workers : LoginInsertToken(w)
    \/ ProtectedRequest

SpecPasswords == Init /\ [][NextPasswords]_vars

\* the step in which ResetPassword or UpdatePassword returns an error
PasswordCallFails ==
    /\ last'.op \in {"ResetPassword", "UpdatePassword"}
    /\ \E i \in DOMAIN db'.calls :
          /\ db'.calls[i].call \in {"AuthUC.ResetPassword", "AuthUC.UpdatePassword"}
          /\ db'.calls[i].err # Nil

\* C29: if ResetPassword or UpdatePassword returns an error, the stored
\* password hash of the user and the stored token are the same as before
\* the call.
C29_FailedPasswordChangeKeepsAll ==
    [][PasswordCallFails
       => /\ db'.users = db.users
          /\ db'.tokens = db.tokens]_vars


\* the latest request answered was a POST /password/forgot that mailed the
\* plain text t and saved its token
Mailed(t) ==
    /\ last.op = "SendPasswordResetEmail"
    /\ last.code = StatusOK
    /\ \E i \in DOMAIN db.calls :
          db.calls[i].call = "SendMail" /\ db.calls[i].arg = t

\* the step answers a request to a route behind IsAuthenticated that
\* carried the plain text t as its bearer token
BearerStep(t) ==
    /\ last'.op \in ProtectedRoutes \cup {"UpdatePassword"}
    /\ HeaderOf(db') = BearerHeader(t)

\* C30: a token issued by SendPasswordResetEmail can be used only to reset
\* the password: presented as the bearer token on a route behind
\* IsAuthenticated it is answered 401.
C30_ResetTokenIsNoBearer ==
    [][\A t \in TokenInputs :
          (Mailed(t) /\ BearerStep(t)) => last'.code = StatusUnauthorized]_vars

====
